---------------------------- MODULE Spec2Model ----------------------------
(***************************************************************************)
(* A model of the AI task planning agent: the planner of utils/planner.py  *)
(* (goal analysis, enrichment, plan generation and the line-oriented       *)
(* parser), the tools of utils/tools.py and the SQLite persistence of      *)
(* utils/database.py together with the View Plan tab of main.py.           *)
(*                                                                         *)
(* A Python str is a sequence of one-character strings; a character        *)
(* outside ASCII is written by its code point ("U+2022" is the bullet).    *)
(* A Python value that may be None, a number, a str, a list or a dict is a *)
(* record [t, v] tagged with its type.                                     *)
(***************************************************************************)
EXTENDS Integers, Sequences, FiniteSets

(***************************************************************************)
(* Bounds of the model.                                                    *)
(***************************************************************************)
\* number of lines of a plan-generation response handed to the stepwise parser
MaxLines == 3
\* number of lines of a plan-generation response in the whole pipeline
MaxFlowLines == 2
\* length of a goal-analysis response drawn over AnalysisAlphabet
MaxAnalysisLen == 4
\* length of the one long line of the pool, above the 500 of response[:500]
LongLineLen == 501
\* largest num_results handed to WebSearchTool.search
MaxNumResults == 5
\* the clock of datetime.now() runs over 0..MaxClock
MaxClock == 1

(***************************************************************************)
(* Python str operations.                                                  *)
(***************************************************************************)
MinOf(a, b) == IF a <= b THEN a ELSE b

MaxOf(a, b) == IF a >= b THEN a ELSE b

\* str.strip() without arguments removes these
WhiteSpace == {" ", "\t", "\n", "\r"}

UpperCase == <<"A","B","C","D","E","F","G","H","I","J","K","L","M","N","O","P","Q","R","S","T","U","V","W","X","Y","Z","U+0414","U+0415","U+041D","U+042C">>

LowerCase == <<"a","b","c","d","e","f","g","h","i","j","k","l","m","n","o","p","q","r","s","t","u","v","w","x","y","z","U+0434","U+0435","U+043D","U+044C">>

LowerChar(c) ==
    IF \E i \in 1..Len(UpperCase) : UpperCase[i] = c
    THEN LowerCase[CHOOSE i \in 1..Len(UpperCase) : UpperCase[i] = c]
    ELSE c

\* str.lower()
StrLower(s) == [i \in 1..Len(s) |-> LowerChar(s[i])]

\* the first index from i on whose character is not in cs (Len(s)+1 if none)
RECURSIVE SkipLeft(_, _, _)
SkipLeft(s, i, cs) ==
    IF i <= Len(s) /\ s[i] \in cs THEN SkipLeft(s, i + 1, cs) ELSE i

\* the last index up to i whose character is not in cs (0 if none)
RECURSIVE SkipRight(_, _, _)
SkipRight(s, i, cs) ==
    IF i >= 1 /\ s[i] \in cs THEN SkipRight(s, i - 1, cs) ELSE i

\* str.lstrip(chars)
StrLStrip(s, cs) == SubSeq(s, SkipLeft(s, 1, cs), Len(s))

\* str.strip()
StrStrip(s) ==
    LET lo == SkipLeft(s, 1, WhiteSpace)
    IN  IF lo > Len(s) THEN <<>> ELSE SubSeq(s, lo, SkipRight(s, Len(s), WhiteSpace))

\* sub in s
StrContains(s, sub) ==
    \E i \in 1..(Len(s) - Len(sub) + 1) :
        \A k \in 1..Len(sub) : s[i + k - 1] = sub[k]

\* s.startswith(sub, i-1): sub stands in s at index i
StrAt(s, i, sub) ==
    /\ i >= 1
    /\ i + Len(sub) - 1 <= Len(s)
    /\ \A k \in 1..Len(sub) : s[i + k - 1] = sub[k]

\* s[:n]
StrTake(s, n) == SubSeq(s, 1, MinOf(n, Len(s)))

\* the elements of a finite set of integers in increasing order
SortedSeq(S) ==
    [k \in 1..Cardinality(S) |->
        CHOOSE p \in S : Cardinality({q \in S : q < p}) = k - 1]

\* s.split(c) for a one-character separator c
StrSplit(s, c) ==
    LET cuts == SortedSeq({i \in 1..Len(s) : s[i] = c})
        n    == Len(cuts)
        from(k) == IF k = 1 THEN 1 ELSE cuts[k - 1] + 1
        to(k)   == IF k = n + 1 THEN Len(s) ELSE cuts[k] - 1
    IN  [k \in 1..(n + 1) |-> SubSeq(s, from(k), to(k))]

\* the concatenation of parts[lo..hi], halving the range
RECURSIVE Flatten(_, _, _)
Flatten(parts, lo, hi) ==
    IF lo > hi THEN <<>>
    ELSE IF lo = hi THEN parts[lo]
    ELSE LET mid == (lo + hi) \div 2
         IN  Flatten(parts, lo, mid) \o Flatten(parts, mid + 1, hi)

\* sep.join(parts)
StrJoin(parts, sep) ==
    Flatten([k \in 1..Len(parts) |-> IF k = 1 THEN parts[k] ELSE sep \o parts[k]],
            1, Len(parts))

Digits == <<"0","1","2","3","4","5","6","7","8","9">>

DigitSet == {Digits[i] : i \in 1..10}

RECURSIVE NatToStr(_)
NatToStr(n) ==
    IF n < 10 THEN <<Digits[n + 1]>>
    ELSE NatToStr(n \div 10) \o <<Digits[(n % 10) + 1]>>

\* str(n) of an int, as an f-string or json.dumps writes it
IntToStr(n) == IF n < 0 THEN <<"-">> \o NatToStr(0 - n) ELSE NatToStr(n)

(***************************************************************************)
(* Python values.                                                          *)
(***************************************************************************)
PyNone == [t |-> "none", v |-> <<>>]

PyInt(n) == [t |-> "int", v |-> n]

PyStr(s) == [t |-> "str", v |-> s]

PyBool(b) == [t |-> "bool", v |-> b]

PyList(xs) == [t |-> "list", v |-> xs]

\* a dict is its items in insertion order, each <<key, value>> with a str key
PyDict(items) == [t |-> "dict", v |-> items]

\* bool(x)
Truthy(x) ==
    CASE x.t = "none" -> FALSE
      [] x.t = "int"  -> x.v # 0
      [] x.t = "bool" -> x.v
      [] OTHER        -> Len(x.v) > 0

\* key in d
DictHas(d, key) == \E i \in 1..Len(d.v) : d.v[i][1] = key

\* d.get(key, default)
DictGet(d, key, default) ==
    IF DictHas(d, key)
    THEN d.v[CHOOSE i \in 1..Len(d.v) : d.v[i][1] = key][2]
    ELSE default

\* d[key] = value
DictSet(d, key, value) ==
    IF DictHas(d, key)
    THEN PyDict([i \in 1..Len(d.v) |->
                    IF d.v[i][1] = key THEN <<key, value>> ELSE d.v[i]])
    ELSE PyDict(Append(d.v, <<key, value>>))

(***************************************************************************)
(* json.dumps and json.loads, character by character, with the default     *)
(* separators and ensure_ascii.  Floats do not occur in the model.         *)
(***************************************************************************)
\* the characters outside ASCII that the model writes, and their \uXXXX digits
NonAscii == <<"U+2022","U+0434","U+0435","U+043D","U+044C","U+0414","U+0415","U+041D","U+042C">>

NonAsciiHex == <<<<"2","0","2","2">>, <<"0","4","3","4">>, <<"0","4","3","5">>, <<"0","4","3","d">>, <<"0","4","4","c">>, <<"0","4","1","4">>, <<"0","4","1","5">>, <<"0","4","1","d">>, <<"0","4","2","c">>>>

HexDigit == DigitSet \cup {"a","b","c","d","e","f","A","B","C","D","E","F"}

\* the two-character escapes: <<character, letter after the backslash>>
ShortEscapes == << <<"\"", "\"">>, <<"\\", "\\">>, <<"\n", "n">>, <<"\r", "r">>, <<"\t", "t">> >>

\* py_encode_basestring_ascii on one character
JsonEscapeChar(c) ==
    IF \E k \in 1..Len(ShortEscapes) : ShortEscapes[k][1] = c
    THEN <<"\\", ShortEscapes[CHOOSE k \in 1..Len(ShortEscapes) : ShortEscapes[k][1] = c][2]>>
    ELSE IF \E k \in 1..Len(NonAscii) : NonAscii[k] = c
    THEN <<"\\", "u">> \o NonAsciiHex[CHOOSE k \in 1..Len(NonAscii) : NonAscii[k] = c]
    ELSE <<c>>

\* a str as a JSON string
JsonDumpsStr(s) ==
    <<"\"">> \o Flatten([i \in 1..Len(s) |-> JsonEscapeChar(s[i])], 1, Len(s)) \o <<"\"">>

\* json.dumps(x)
RECURSIVE JsonDumps(_)
JsonDumps(x) ==
    CASE x.t = "none" -> <<"n","u","l","l">>
      [] x.t = "bool" -> IF x.v THEN <<"t","r","u","e">> ELSE <<"f","a","l","s","e">>
      [] x.t = "int"  -> IntToStr(x.v)
      [] x.t = "str"  -> JsonDumpsStr(x.v)
      [] x.t = "list" ->
            <<"[">> \o StrJoin([i \in 1..Len(x.v) |-> JsonDumps(x.v[i])], <<","," ">>) \o <<"]">>
      [] x.t = "dict" ->
            <<"{">> \o StrJoin([i \in 1..Len(x.v) |->
                                  JsonDumpsStr(x.v[i][1]) \o <<":"," ">> \o JsonDumps(x.v[i][2])],
                               <<","," ">>) \o <<"}">>

\* the outcome of a failed parse (json.JSONDecodeError)
JsonFail == [ok |-> FALSE, val |-> PyNone, next |-> 0]

JsonOk(val, next) == [ok |-> TRUE, val |-> val, next |-> next]

JsonWs(s, i) == SkipLeft(s, i, WhiteSpace)

\* how many backslashes stand directly before index j, looking back no further than lo
BackslashRun(s, lo, j) == (j - 1) - MaxOf(SkipRight(s, j - 1, {"\\"}), lo - 1)

\* the backslash at j opens an escape (it is not itself escaped)
EscapeStart(s, lo, j) ==
    /\ j >= lo
    /\ j <= Len(s)
    /\ s[j] = "\\"
    /\ BackslashRun(s, lo, j) % 2 = 0

\* the least element of a non-empty set of indices
MinIndex(S) == CHOOSE j \in S : \A k \in S : j <= k

\* index of the quote closing the string whose content starts at lo, looking
\* from index from on, 32 characters at a time; 0 when the string is not closed
RECURSIVE FindClose(_, _, _)
FindClose(s, lo, from) ==
    IF \E j \in from..MinOf(from + 31, Len(s)) : s[j] = "\"" /\ BackslashRun(s, lo, j) % 2 = 0
    THEN MinIndex({j \in from..MinOf(from + 31, Len(s)) :
                      s[j] = "\"" /\ BackslashRun(s, lo, j) % 2 = 0})
    ELSE IF from + 31 >= Len(s) THEN 0
    ELSE FindClose(s, lo, from + 32)

\* index j of the content lo..hi belongs to an escape opened before it
EscapeTail(s, lo, j) ==
    \/ EscapeStart(s, lo, j - 1)
    \/ \E k \in 2..5 : EscapeStart(s, lo, j - k) /\ s[j - k + 1] = "u"

\* the escape opened at j is one json.loads accepts
EscapeValid(s, hi, j) ==
    /\ j + 1 <= hi
    /\ \/ s[j + 1] \in {"\"", "\\", "/", "b", "f", "n", "r", "t"}
       \/ /\ s[j + 1] = "u"
          /\ j + 5 <= hi
          /\ \A k \in 2..5 : s[j + k] \in HexDigit

\* the character an escape opened at j stands for
EscapeChar(s, j) ==
    LET c == s[j + 1]
    IN  IF c = "u"
        THEN LET hex == StrLower(SubSeq(s, j + 2, j + 5))
             IN  IF \E k \in 1..Len(NonAscii) : NonAsciiHex[k] = hex
                 THEN NonAscii[CHOOSE k \in 1..Len(NonAscii) : NonAsciiHex[k] = hex]
                 ELSE "U+????"
        ELSE IF \E k \in 1..Len(ShortEscapes) : ShortEscapes[k][2] = c
        THEN ShortEscapes[CHOOSE k \in 1..Len(ShortEscapes) : ShortEscapes[k][2] = c][1]
        ELSE c

\* the content lo..close-1 of a JSON string whose closing quote is at close
JsonStrBody(s, lo, close) ==
    IF close = 0 THEN JsonFail
    ELSE IF \E j \in lo..(close - 1) :
               \/ s[j] \in {"\n", "\r", "\t"}
               \/ EscapeStart(s, lo, j) /\ ~EscapeValid(s, close - 1, j)
    THEN JsonFail
    ELSE JsonOk(PyStr(Flatten([j \in lo..(close - 1) |->
                                  IF EscapeTail(s, lo, j) THEN <<>>
                                  ELSE IF EscapeStart(s, lo, j) THEN <<EscapeChar(s, j)>>
                                  ELSE <<s[j]>>],
                              lo, close - 1)),
                close + 1)

\* a JSON string starting with its opening quote at i
JsonParseStr(s, i) ==
    IF ~(i <= Len(s) /\ s[i] = "\"") THEN JsonFail
    ELSE JsonStrBody(s, i + 1, FindClose(s, i + 1, i + 1))

RECURSIVE DigitsToNat(_, _, _)
DigitsToNat(s, lo, hi) ==
    IF lo > hi THEN 0
    ELSE 10 * DigitsToNat(s, lo, hi - 1)
         + ((CHOOSE k \in 1..10 : Digits[k] = s[hi]) - 1)

\* the digits first..stop-1 of a JSON integer, negated if neg
JsonIntBody(s, neg, first, stop) ==
    IF stop = first THEN JsonFail
    ELSE IF s[first] = "0" /\ stop > first + 1
    THEN JsonOk(PyInt(0), first + 1)
    ELSE JsonOk(PyInt(IF neg THEN 0 - DigitsToNat(s, first, stop - 1)
                             ELSE DigitsToNat(s, first, stop - 1)),
                stop)

\* a JSON integer starting at i
JsonParseInt(s, i) ==
    IF i <= Len(s) /\ s[i] = "-"
    THEN JsonIntBody(s, TRUE, i + 1, SkipLeft(s, i + 1, DigitSet))
    ELSE JsonIntBody(s, FALSE, i, SkipLeft(s, i, DigitSet))

RECURSIVE JsonParseValue(_, _)
RECURSIVE JsonParseElems(_, _, _)
RECURSIVE JsonParseMembers(_, _, _)

\* an array whose element e has been parsed: acc holds those before it
JsonElemsNext(s, e, acc) ==
    IF ~e.ok THEN JsonFail
    ELSE JsonParseElems(s, e.next, Append(acc, e.val))

\* after an element of an array, at j past any white space
JsonElemsAt(s, j, acc) ==
    IF j > Len(s) THEN JsonFail
    ELSE IF s[j] = "]" THEN JsonOk(PyList(acc), j + 1)
    ELSE IF s[j] # "," THEN JsonFail
    ELSE JsonElemsNext(s, JsonParseValue(s, JsonWs(s, j + 1)), acc)

\* the elements of an array after its first: acc holds those parsed so far
JsonParseElems(s, i, acc) == JsonElemsAt(s, JsonWs(s, i), acc)

\* after a member of an object, at j past any white space: d is the dict so far
JsonMemberEnd(s, d, j) ==
    IF j > Len(s) THEN JsonFail
    ELSE IF s[j] = "}" THEN JsonOk(d, j + 1)
    ELSE IF s[j] # "," THEN JsonFail
    ELSE JsonParseMembers(s, JsonWs(s, j + 1), d)

\* a member whose key and value e have been parsed
JsonMemberNext(s, key, e, acc) ==
    IF ~e.ok THEN JsonFail
    ELSE JsonMemberEnd(s, DictSet(acc, key, e.val), JsonWs(s, e.next))

\* a member whose key has been parsed, at c past any white space
JsonMemberValue(s, key, c, acc) ==
    IF ~(c <= Len(s) /\ s[c] = ":") THEN JsonFail
    ELSE JsonMemberNext(s, key, JsonParseValue(s, JsonWs(s, c + 1)), acc)

\* a member whose key string k has been parsed
JsonMemberKey(s, k, acc) ==
    IF ~k.ok THEN JsonFail
    ELSE JsonMemberValue(s, k.val.v, JsonWs(s, k.next), acc)

\* one member of an object at i, then the rest: acc is the dict so far
JsonParseMembers(s, i, acc) == JsonMemberKey(s, JsonParseStr(s, i), acc)

\* an object or an array whose first token stands at j
JsonObjectAt(s, j) ==
    IF j <= Len(s) /\ s[j] = "}" THEN JsonOk(PyDict(<<>>), j + 1)
    ELSE JsonParseMembers(s, j, PyDict(<<>>))

JsonArrayFirst(s, e) ==
    IF ~e.ok THEN JsonFail
    ELSE JsonParseElems(s, e.next, <<e.val>>)

JsonArrayAt(s, j) ==
    IF j <= Len(s) /\ s[j] = "]" THEN JsonOk(PyList(<<>>), j + 1)
    ELSE JsonArrayFirst(s, JsonParseValue(s, j))

\* a JSON value starting at i (i is past any white space)
JsonParseValue(s, i) ==
    IF i > Len(s) THEN JsonFail
    ELSE IF s[i] = "{" THEN JsonObjectAt(s, JsonWs(s, i + 1))
    ELSE IF s[i] = "[" THEN JsonArrayAt(s, JsonWs(s, i + 1))
    ELSE IF s[i] = "\"" THEN JsonParseStr(s, i)
    ELSE IF StrAt(s, i, <<"n","u","l","l">>) THEN JsonOk(PyNone, i + 4)
    ELSE IF StrAt(s, i, <<"t","r","u","e">>) THEN JsonOk(PyBool(TRUE), i + 4)
    ELSE IF StrAt(s, i, <<"f","a","l","s","e">>) THEN JsonOk(PyBool(FALSE), i + 5)
    ELSE JsonParseInt(s, i)

\* the parse r of the whole text must end at its end
JsonLoadsEnd(s, r) == IF r.ok /\ JsonWs(s, r.next) > Len(s) THEN r ELSE JsonFail

\* json.loads(s): ok is FALSE where json.loads raises JSONDecodeError
JsonLoads(s) == JsonLoadsEnd(s, JsonParseValue(s, JsonWs(s, 1)))

(***************************************************************************)
(* utils/tools.py.  What requests.get does is an input of the model: it    *)
(* returns a response [kind, status, text, json] or throws [kind, message].*)
(***************************************************************************)
HttpResponse(status, text, json) ==
    [kind |-> "response", status |-> status, text |-> text, json |-> json, message |-> <<>>]

HttpException(message) ==
    [kind |-> "exception", status |-> 0, text |-> <<>>, json |-> PyNone, message |-> message]

\* f"{x}" of a value
PyFormat(x) ==
    CASE x.t = "str"  -> x.v
      [] x.t = "int"  -> IntToStr(x.v)
      [] x.t = "none" -> <<"N","o","n","e">>
      [] x.t = "bool" -> IF x.v THEN <<"T","r","u","e">> ELSE <<"F","a","l","s","e">>
      [] OTHER        -> <<"?">>

\* the cap on the number of placeholder results
SearchCap == 3

\* a variant of SearchEntry that takes the snippet from the page fetched
SearchEntryFromBody(query, i, text) ==
    PyDict(<< <<<<"t","i","t","l","e">>, PyStr(<<"R","e","s","u","l","t"," ">> \o IntToStr(i + 1) \o <<" ","f","o","r",":"," ">> \o query)>>,
              <<<<"s","n","i","p","p","e","t">>, PyStr(text)>>,
              <<<<"u","r","l">>, PyStr(<<"h","t","t","p","s",":","/","/","e","x","a","m","p","l","e",".","c","o","m","/">> \o IntToStr(i))>> >>)

\* the dict appended for index i of range(min(num_results, 3)); text is
\* response.text, which the loop has at hand
SearchEntry(query, i, text) ==
    PyDict(<< <<<<"t","i","t","l","e">>, PyStr(<<"R","e","s","u","l","t"," ">> \o IntToStr(i + 1) \o <<" ","f","o","r",":"," ">> \o query)>>,
              <<<<"s","n","i","p","p","e","t">>, PyStr(<<"I","n","f","o","r","m","a","t","i","o","n"," ","a","b","o","u","t"," ">> \o query \o <<" ","f","r","o","m"," ","w","e","b"," ","s","e","a","r","c","h",".">>)>>,
              <<<<"u","r","l">>, PyStr(<<"h","t","t","p","s",":","/","/","e","x","a","m","p","l","e",".","c","o","m","/">> \o IntToStr(i))>> >>)

\* results after the status check and the loop
SearchResults(query, num_results, http) ==
    IF http.status = 200
    THEN PyList([k \in 1..MaxOf(MinOf(num_results, SearchCap), 0) |->
                    SearchEntry(query, k - 1, http.text)])
    ELSE PyList(<<>>)

\* the body of the try block of WebSearchTool.search: requests.get may throw
SearchTry(query, num_results, http) ==
    IF http.kind = "exception"
    THEN [ret |-> PyNone, warnings |-> <<>>, raised |-> TRUE, message |-> http.message]
    ELSE [ret |-> SearchResults(query, num_results, http), warnings |-> <<>>,
          raised |-> FALSE, message |-> <<>>]

\* a variant of WebSearch without the except clause
WebSearchUnguarded(query, num_results, http) == SearchTry(query, num_results, http)

\* WebSearchTool.search(query, num_results): what it returns, the st.warning
\* messages it shows, and whether an exception leaves it
WebSearch(query, num_results, http) ==
    LET body == SearchTry(query, num_results, http)
    IN  IF body.raised
        THEN [ret |-> PyList(<<>>), warnings |-> <<<<"S","e","a","r","c","h"," ","e","r","r","o","r",":"," ">> \o body.message>>,
              raised |-> FALSE, message |-> <<>>]
        ELSE body

\* WeatherTool.__init__: api_key or "demo"
WeatherApiKey(api_key) == IF Truthy(api_key) THEN api_key ELSE PyStr(<<"d","e","m","o">>)

\* a variant of DemoForecast whose temperatures start one degree higher
DemoForecastFromOne(location, days) ==
    PyDict(<< <<<<"l","o","c","a","t","i","o","n">>, location>>,
              <<<<"f","o","r","e","c","a","s","t">>,
                PyList([k \in 1..MaxOf(days, 0) |->
                    PyDict(<< <<<<"d","a","y">>, PyInt(k)>>,
                              <<<<"t","e","m","p">>, PyInt(25 + k)>>,
                              <<<<"c","o","n","d","i","t","i","o","n">>, PyStr(<<"C","l","e","a","r">>)>> >>)])>> >>)

\* the mock forecast of demo mode
DemoForecast(location, days) ==
    PyDict(<< <<<<"l","o","c","a","t","i","o","n">>, location>>,
              <<<<"f","o","r","e","c","a","s","t">>,
                PyList([k \in 1..MaxOf(days, 0) |->
                    PyDict(<< <<<<"d","a","y">>, PyInt(k)>>,
                              <<<<"t","e","m","p">>, PyInt(25 + (k - 1))>>,
                              <<<<"c","o","n","d","i","t","i","o","n">>, PyStr(<<"C","l","e","a","r">>)>> >>)])>> >>)

WeatherError(message) == PyDict(<< <<<<"e","r","r","o","r">>, PyStr(message)>> >>)

\* d[key] for a dict d: ok is FALSE where Python raises KeyError or TypeError
Subscript(d, key) ==
    IF d.t = "dict" /\ DictHas(d, key)
    THEN [ok |-> TRUE, val |-> DictGet(d, key, PyNone)]
    ELSE [ok |-> FALSE, val |-> PyNone]

\* the forecast entry of day i (from 0) out of day_data
ForecastEntry(i, day_data) ==
    LET main == Subscript(day_data, <<"m","a","i","n">>)
        temp == Subscript(main.val, <<"t","e","m","p">>)
        wthr == Subscript(day_data, <<"w","e","a","t","h","e","r">>)
        w0   == IF wthr.ok /\ wthr.val.t = "list" /\ Len(wthr.val.v) > 0
                THEN [ok |-> TRUE, val |-> wthr.val.v[1]]
                ELSE [ok |-> FALSE, val |-> PyNone]
        desc == Subscript(w0.val, <<"d","e","s","c","r","i","p","t","i","o","n">>)
        hum  == Subscript(main.val, <<"h","u","m","i","d","i","t","y">>)
    IN  IF main.ok /\ temp.ok /\ w0.ok /\ desc.ok /\ hum.ok
        THEN [ok |-> TRUE,
              val |-> PyDict(<< <<<<"d","a","y">>, PyInt(i + 1)>>,
                                <<<<"t","e","m","p">>, temp.val>>,
                                <<<<"c","o","n","d","i","t","i","o","n">>, desc.val>>,
                                <<<<"h","u","m","i","d","i","t","y">>, hum.val>> >>)]
        ELSE [ok |-> FALSE, val |-> PyNone]

\* a variant of ProcessForecast that steps through data['list'] one by one
ProcessForecastByOne(data, days) ==
    LET list == Subscript(data, <<"l","i","s","t">>)
        city == Subscript(data, <<"c","i","t","y">>)
        name == Subscript(city.val, <<"n","a","m","e">>)
        n    == IF list.ok /\ list.val.t = "list" THEN Len(list.val.v) ELSE 0
        entry(i) == IF n = 0 THEN [ok |-> FALSE, val |-> PyNone]
                    ELSE ForecastEntry(i, IF i < n THEN list.val.v[i + 1]
                                                   ELSE list.val.v[n])
    IN  IF \E i \in 0..(days - 1) : ~entry(i).ok THEN [ok |-> FALSE, val |-> PyNone]
        ELSE IF ~city.ok \/ ~name.ok THEN [ok |-> FALSE, val |-> PyNone]
        ELSE [ok |-> TRUE,
              val |-> PyDict(<< <<<<"l","o","c","a","t","i","o","n">>, name.val>>,
                                <<<<"f","o","r","e","c","a","s","t">>,
                                  PyList([k \in 1..MaxOf(days, 0) |-> entry(k - 1).val])>> >>)]

\* WeatherTool._process_forecast(data, days): ok is FALSE where it raises
ProcessForecast(data, days) ==
    LET list == Subscript(data, <<"l","i","s","t">>)
        city == Subscript(data, <<"c","i","t","y">>)
        name == Subscript(city.val, <<"n","a","m","e">>)
        n    == IF list.ok /\ list.val.t = "list" THEN Len(list.val.v) ELSE 0
        \* data['list'][i*8] if i*8 < len(data['list']) else data['list'][-1]
        entry(i) == IF n = 0 THEN [ok |-> FALSE, val |-> PyNone]
                    ELSE ForecastEntry(i, IF i * 8 < n THEN list.val.v[i * 8 + 1]
                                                       ELSE list.val.v[n])
    IN  IF \E i \in 0..(days - 1) : ~entry(i).ok THEN [ok |-> FALSE, val |-> PyNone]
        ELSE IF ~city.ok \/ ~name.ok THEN [ok |-> FALSE, val |-> PyNone]
        ELSE [ok |-> TRUE,
              val |-> PyDict(<< <<<<"l","o","c","a","t","i","o","n">>, name.val>>,
                                <<<<"f","o","r","e","c","a","s","t">>,
                                  PyList([k \in 1..MaxOf(days, 0) |-> entry(k - 1).val])>> >>)]

\* the body of the try block of WeatherTool.get_forecast; days is the value
\* handed in (an int, or None when the plan info holds null).  requested tells
\* whether requests.get was called.
ForecastTry(api_key, location, days, http) ==
    IF days.t # "int"
    THEN [ret |-> PyNone, requested |-> FALSE, raised |-> TRUE,
          message |-> <<"u","n","s","u","p","p","o","r","t","e","d"," ","o","p","e","r","a","n","d"," ","t","y","p","e">>]
    ELSE IF api_key = PyStr(<<"d","e","m","o">>)
    THEN [ret |-> DemoForecast(location, days.v), requested |-> FALSE, raised |-> FALSE,
          message |-> <<>>]
    ELSE IF http.kind = "exception"
    THEN [ret |-> PyNone, requested |-> TRUE, raised |-> TRUE, message |-> http.message]
    ELSE IF http.status # 200
    THEN [ret |-> WeatherError(<<"W","e","a","t","h","e","r"," ","d","a","t","a"," ","u","n","a","v","a","i","l","a","b","l","e">>), requested |-> TRUE,
          raised |-> FALSE, message |-> <<>>]
    ELSE LET p == ProcessForecast(http.json, days.v)
         IN  IF p.ok
             THEN [ret |-> p.val, requested |-> TRUE, raised |-> FALSE, message |-> <<>>]
             ELSE [ret |-> PyNone, requested |-> TRUE, raised |-> TRUE,
                   message |-> <<"m","a","l","f","o","r","m","e","d"," ","f","o","r","e","c","a","s","t"," ","d","a","t","a">>]

\* a variant of GetForecast without the except clause
GetForecastUnguarded(api_key, location, days, http) ==
    ForecastTry(api_key, location, days, http)

\* WeatherTool.get_forecast(location, days)
GetForecast(api_key, location, days, http) ==
    LET body == ForecastTry(api_key, location, days, http)
    IN  IF body.raised
        THEN [ret |-> WeatherError(body.message), requested |-> body.requested,
              raised |-> FALSE, message |-> <<>>]
        ELSE body

(***************************************************************************)
(* utils/planner.py: the dataclasses and the pure parts of TaskPlanner.    *)
(***************************************************************************)
\* PlanStep(step_number, title, description) with its three defaults
PlanStep(step_number, title, description) ==
    [step_number |-> step_number, title |-> title, description |-> description,
     time |-> PyNone, location |-> PyNone, additional_info |-> PyNone]

\* DayPlan(day_number, theme, steps, weather_info=...) with date defaulted
DayPlan(day_number, theme, steps, weather_info) ==
    [day_number |-> day_number, theme |-> theme, steps |-> steps,
     date |-> PyNone, weather_info |-> weather_info]

TaskPlan(goal, created_at, total_days, days, metadata) ==
    [goal |-> goal, created_at |-> created_at, total_days |-> total_days,
     days |-> days, metadata |-> metadata]

\* the fallback dict of _analyze_goal
DefaultPlanInfo ==
    PyDict(<< <<<<"d","u","r","a","t","i","o","n","_","d","a","y","s">>, PyInt(1)>>,
              <<<<"l","o","c","a","t","i","o","n">>, PyNone>>,
              <<<<"t","y","p","e">>, PyStr(<<"g","e","n","e","r","a","l">>)>>,
              <<<<"k","e","y","_","t","h","e","m","e","s">>, PyList(<<PyStr(<<"g","e","n","e","r","a","l"," ","p","l","a","n","n","i","n","g">>)>>)>> >>)

\* re.search(r'{{.*}}', s, re.DOTALL): two opening braces, anything, two
\* closing braces; the leftmost start and, greedily, the last end
ReSearchJson(s) ==
    LET opens  == {i \in 1..(Len(s) - 1) : s[i] = "{" /\ s[i + 1] = "{"}
        closes == {j \in 1..(Len(s) - 1) : s[j] = "}" /\ s[j + 1] = "}"}
        starts == {i \in opens : \E j \in closes : j >= i + 2}
    IN  IF starts = {} THEN [found |-> FALSE, text |-> <<>>]
        ELSE LET i == CHOOSE a \in starts : \A b \in starts : a <= b
                 ends == {j \in closes : j >= i + 2}
                 j == CHOOSE a \in ends : \A b \in ends : a >= b
             IN  [found |-> TRUE, text |-> SubSeq(s, i, j + 1)]

\* return json.loads(json_match.group()): raised is TRUE where json.loads raises
AnalyzeLoaded(loaded) ==
    IF loaded.ok THEN [raised |-> FALSE, ret |-> loaded.val]
    ELSE [raised |-> TRUE, ret |-> PyNone]

\* if json_match: ... ; then the fallback
AnalyzeMatch(json_match) ==
    IF json_match.found THEN AnalyzeLoaded(JsonLoads(json_match.text))
    ELSE [raised |-> FALSE, ret |-> DefaultPlanInfo]

\* _analyze_goal from the LLM's response on: raised is TRUE where an
\* exception leaves the method (re.search on None, json.loads on bad text)
AnalyzeGoal(response) ==
    IF response.t # "str" THEN [raised |-> TRUE, ret |-> PyNone]
    ELSE AnalyzeMatch(ReSearchJson(response.v))

\* a variant of HasLocation that asks for the key only: 'location' in plan_info
HasLocationByKey(plan_info) == DictHas(plan_info, <<"l","o","c","a","t","i","o","n">>)

\* if plan_info.get('location'):
HasLocation(plan_info) == Truthy(DictGet(plan_info, <<"l","o","c","a","t","i","o","n">>, PyNone))

\* f"{plan_info['location']} attractions food culture"
LocationQuery(plan_info) ==
    PyFormat(DictGet(plan_info, <<"l","o","c","a","t","i","o","n">>, PyNone)) \o <<" ","a","t","t","r","a","c","t","i","o","n","s"," ","f","o","o","d"," ","c","u","l","t","u","r","e">>

\* plan_info.get('duration_days', 1)
ForecastDays(plan_info) == DictGet(plan_info, <<"d","u","r","a","t","i","o","n","_","d","a","y","s">>, PyInt(1))

\* plan_info.get('key_themes', [])
KeyThemes(plan_info) == DictGet(plan_info, <<"k","e","y","_","t","h","e","m","e","s">>, PyList(<<>>))

\* f"{theme} tips recommendations"
ThemeQuery(theme) == PyFormat(theme) \o <<" ","t","i","p","s"," ","r","e","c","o","m","m","e","n","d","a","t","i","o","n","s">>

\* f'theme_{theme}'
ThemeKey(theme) == <<"t","h","e","m","e","_">> \o PyFormat(theme)

\* ['day', the Russian word for day]
DayMarkers == <<<<"d","a","y">>, <<"U+0434","U+0435","U+043D","U+044C">>>>

\* a variant of IsDayMarker that does not lower-case the line
IsDayMarkerCaseSensitive(line) ==
    \E m \in 1..Len(DayMarkers) : StrContains(line, DayMarkers[m])

\* any(marker in line.lower() for marker in [...])
IsDayMarker(line) ==
    \E m \in 1..Len(DayMarkers) : StrContains(StrLower(line), DayMarkers[m])

\* ['1.', '2.', '3.', bullet, '-']
StepMarkers == <<<<"1",".">>, <<"2",".">>, <<"3",".">>, <<"U+2022">>, <<"-">>>>

\* any(char in line for char in [...])
IsStepLine(line) ==
    \E m \in 1..Len(StepMarkers) : StrContains(line, StepMarkers[m])

\* the characters of line.lstrip('0123456789.- ' and the bullet)
StepStripChars == DigitSet \cup {".", "-", "U+2022", " "}

\* the PlanStep built from a step line
StepOf(step_counter, line) ==
    PlanStep(PyInt(step_counter),
             PyStr(<<"S","t","e","p"," ">> \o IntToStr(step_counter)),
             PyStr(StrLStrip(line, StepStripChars)))

\* enrichment_data.get('weather', {}).get('forecast', [{}])[day_counter-1]
\*     if enrichment_data.get('weather') else None
\* ok is FALSE where the subscript raises IndexError
WeatherInfo(enrichment_data, day_counter) ==
    LET weather == DictGet(enrichment_data, <<"w","e","a","t","h","e","r">>, PyNone)
    IN  IF ~Truthy(weather) THEN [ok |-> TRUE, val |-> PyNone]
        ELSE LET forecast == DictGet(weather, <<"f","o","r","e","c","a","s","t">>, PyList(<<PyDict(<<>>)>>))
             IN  IF day_counter <= Len(forecast.v)
                 THEN [ok |-> TRUE, val |-> forecast.v[day_counter]]
                 ELSE [ok |-> FALSE, val |-> PyNone]

\* the locals of _parse_plan_response before the loop
ParserStart ==
    [days |-> <<>>, current_day |-> PyNone, current_steps |-> <<>>,
     day_counter |-> 1, step_counter |-> 1, raised |-> FALSE]

\* if current_day and current_steps: days.append(DayPlan(...)); raised is set
\* where building the DayPlan raises
AppendDay(st, enrichment_data) ==
    LET w == WeatherInfo(enrichment_data, st.day_counter)
    IN  IF ~w.ok THEN [st EXCEPT !.raised = TRUE]
        ELSE [st EXCEPT !.days = Append(@, DayPlan(PyInt(st.day_counter), st.current_day,
                                                   st.current_steps, w.val))]

\* a variant of ParseLine that does not empty current_steps when a day is closed
ParseLineKeepsSteps(st, raw, enrichment_data) ==
    LET line == StrStrip(raw)
    IN  IF line = <<>> THEN st
        ELSE IF IsDayMarker(line)
        THEN IF Truthy(st.current_day) /\ Len(st.current_steps) > 0
             THEN LET a == AppendDay(st, enrichment_data)
                  IN  IF a.raised THEN a
                      ELSE [a EXCEPT !.day_counter = @ + 1,
                                     !.current_day = PyStr(line), !.step_counter = 1]
             ELSE [st EXCEPT !.current_day = PyStr(line), !.step_counter = 1]
        ELSE IF IsStepLine(line)
        THEN [st EXCEPT !.current_steps = Append(@, StepOf(st.step_counter, line)),
                        !.step_counter = @ + 1]
        ELSE st

\* one pass of the loop body over the raw line
ParseLine(st, raw, enrichment_data) ==
    LET line == StrStrip(raw)
    IN  IF line = <<>> THEN st
        ELSE IF IsDayMarker(line)
        THEN IF Truthy(st.current_day) /\ Len(st.current_steps) > 0
             THEN LET a == AppendDay(st, enrichment_data)
                  IN  IF a.raised THEN a
                      ELSE [a EXCEPT !.day_counter = @ + 1, !.current_steps = <<>>,
                                     !.current_day = PyStr(line), !.step_counter = 1]
             ELSE [st EXCEPT !.current_day = PyStr(line), !.step_counter = 1]
        ELSE IF IsStepLine(line)
        THEN [st EXCEPT !.current_steps = Append(@, StepOf(st.step_counter, line)),
                        !.step_counter = @ + 1]
        ELSE st

\* the cut of response[:500]
FallbackLimit == 500

\* the single day of the fallback
FallbackDays(response) ==
    <<DayPlan(PyInt(1), PyStr(<<"D","a","y"," ","1",":"," ","M","a","i","n"," ","P","l","a","n">>),
              <<PlanStep(PyInt(1), PyStr(<<"C","o","m","p","l","e","t","e"," ","P","l","a","n">>),
                         PyStr(StrTake(response, FallbackLimit)))>>,
              PyNone)>>

\* datetime.now().isoformat() of a clock that counts seconds: fixed width,
\* zero padded
IsoFormat(now) ==
    <<"2","0","2","5","-","0","1","-","0","1","T","0","0",":","0","0",":">> \o (IF now < 10 THEN <<"0">> ELSE <<>>) \o IntToStr(now)

\* _parse_plan_response after the loop: the last day, the fallback and the
\* TaskPlan; raised where the last DayPlan raises
ParseFinish(st, goal, response, plan_info, enrichment_data, now) ==
    LET last == IF Truthy(st.current_day) /\ Len(st.current_steps) > 0
                THEN AppendDay(st, enrichment_data)
                ELSE st
        days == IF Len(last.days) = 0 THEN FallbackDays(response) ELSE last.days
    IN  IF last.raised THEN [raised |-> TRUE, ret |-> PyNone]
        ELSE [raised |-> FALSE,
              ret |-> TaskPlan(PyStr(goal), PyStr(IsoFormat(now)), PyInt(Len(days)),
                               days, plan_info)]

(***************************************************************************)
(* utils/database.py and the View Plan tab of main.py.                     *)
(***************************************************************************)
\* dataclasses.asdict(step)
AsDict(step) ==
    PyDict(<< <<<<"s","t","e","p","_","n","u","m","b","e","r">>, step.step_number>>,
              <<<<"t","i","t","l","e">>, step.title>>,
              <<<<"d","e","s","c","r","i","p","t","i","o","n">>, step.description>>,
              <<<<"t","i","m","e">>, step.time>>,
              <<<<"l","o","c","a","t","i","o","n">>, step.location>>,
              <<<<"a","d","d","i","t","i","o","n","a","l","_","i","n","f","o">>, step.additional_info>> >>)

\* a variant of DayDict that leaves out the weather
DayDictWithoutWeather(day) ==
    PyDict(<< <<<<"d","a","y","_","n","u","m","b","e","r">>, day.day_number>>,
              <<<<"d","a","t","e">>, day.date>>,
              <<<<"t","h","e","m","e">>, day.theme>>,
              <<<<"s","t","e","p","s">>, PyList([k \in 1..Len(day.steps) |-> AsDict(day.steps[k])])>> >>)

\* the dict save_plan writes for one day
DayDict(day) ==
    PyDict(<< <<<<"d","a","y","_","n","u","m","b","e","r">>, day.day_number>>,
              <<<<"d","a","t","e">>, day.date>>,
              <<<<"t","h","e","m","e">>, day.theme>>,
              <<<<"s","t","e","p","s">>, PyList([k \in 1..Len(day.steps) |-> AsDict(day.steps[k])])>>,
              <<<<"w","e","a","t","h","e","r","_","i","n","f","o">>, day.weather_info>> >>)

\* plan_dict of save_plan
PlanDict(plan) ==
    PyDict(<< <<<<"g","o","a","l">>, plan.goal>>,
              <<<<"c","r","e","a","t","e","d","_","a","t">>, plan.created_at>>,
              <<<<"t","o","t","a","l","_","d","a","y","s">>, plan.total_days>>,
              <<<<"d","a","y","s">>, PyList([k \in 1..Len(plan.days) |-> DayDict(plan.days[k])])>>,
              <<<<"m","e","t","a","d","a","t","a">>, plan.metadata>> >>)

\* the database file before the first save: no row, no id given out
EmptyDb == [rows |-> <<>>, seq |-> 0]

\* save_plan(plan): the INSERT, with the AUTOINCREMENT id
SavePlan(db, plan) ==
    LET plan_id == db.seq + 1
    IN  [db |-> [rows |-> Append(db.rows,
                                 [id |-> plan_id,
                                  goal |-> plan.goal.v,
                                  created_at |-> plan.created_at.v,
                                  plan_data |-> JsonDumps(PlanDict(plan)),
                                  metadata |-> JsonDumps(plan.metadata)]),
                 seq |-> plan_id],
         plan_id |-> plan_id]

\* the dict get_plan_by_id returns for a row, plan and meta being what
\* json.loads made of its plan_data and metadata; raised where json.loads raises
RowDict(row, plan, meta) ==
    IF ~plan.ok \/ ~meta.ok
    THEN [found |-> TRUE, raised |-> TRUE, ret |-> PyNone]
    ELSE [found |-> TRUE, raised |-> FALSE,
          ret |-> PyDict(<< <<<<"i","d">>, PyInt(row.id)>>,
                            <<<<"g","o","a","l">>, PyStr(row.goal)>>,
                            <<<<"c","r","e","a","t","e","d","_","a","t">>, PyStr(row.created_at)>>,
                            <<<<"p","l","a","n">>, plan.val>>,
                            <<<<"m","e","t","a","d","a","t","a">>, meta.val>> >>)]

\* json.loads(row[4]) if row[4] else {}
RowMetadata(text) == IF Len(text) > 0 THEN JsonLoads(text) ELSE JsonOk(PyDict(<<>>), 0)

\* the printable ASCII characters in the order of their codes, from 32 on
\* (the grave accent goes by its name)
Ascii ==
    <<" ", "!", "\"", "#", "$", "%", "&", "'", "(", ")", "*", "+", ",", "-", 
      ".", "/", "0", "1", "2", "3", "4", "5", "6", "7", "8", "9", ":", ";", 
      "<", "=", ">", "?", "@", "A", "B", "C", "D", "E", "F", "G", "H", "I", 
      "J", "K", "L", "M", "N", "O", "P", "Q", "R", "S", "T", "U", "V", "W", 
      "X", "Y", "Z", "[", "\\", "]", "^", "_", "U+0060", "a", "b", "c", "d", "e", 
      "f", "g", "h", "i", "j", "k", "l", "m", "n", "o", "p", "q", "r", "s", 
      "t", "u", "v", "w", "x", "y", "z", "{", "|", "}", "~">>

\* BINARY collation of SQLite on TEXT: a <= b, byte by byte (a character
\* outside ASCII comes after every ASCII one)
CharCode(c) ==
    IF \E i \in 1..Len(Ascii) : Ascii[i] = c
    THEN 31 + (CHOOSE i \in 1..Len(Ascii) : Ascii[i] = c)
    ELSE 128

TextLessEq(a, b) ==
    LET diffs == {i \in 1..MinOf(Len(a), Len(b)) : a[i] # b[i]}
    IN  IF diffs = {} THEN Len(a) <= Len(b)
        ELSE CharCode(a[CHOOSE i \in diffs : \A j \in diffs : i <= j])
                < CharCode(b[CHOOSE i \in diffs : \A j \in diffs : i <= j])

\* ORDER BY rowid: the rows in the order they were inserted
AllPlansOrdersByRowid(rows) == {[k \in 1..Len(rows) |-> k]}

\* ORDER BY created_at DESC: every order of the rows in which created_at
\* never grows (SQL leaves the order of equal keys open)
AllPlansOrders(rows) ==
    {p \in [1..Len(rows) -> 1..Len(rows)] :
        /\ \A i, j \in 1..Len(rows) : (p[i] = p[j]) => (i = j)
        /\ \A k \in 1..(Len(rows) - 1) :
                TextLessEq(rows[p[k + 1]].created_at, rows[p[k]].created_at)}

\* the dict made of a row
RowRecord(row) == RowDict(row, JsonLoads(row.plan_data), RowMetadata(row.metadata))

\* plans, the dicts appended in the loop; raised where json.loads raises
AllPlansResult(dicts) ==
    IF \E k \in 1..Len(dicts) : dicts[k].raised
    THEN [raised |-> TRUE, ret |-> PyNone]
    ELSE [raised |-> FALSE, ret |-> PyList([k \in 1..Len(dicts) |-> dicts[k].ret])]

\* get_all_plans(), the rows fetched in that order
GetAllPlans(db, order) ==
    AllPlansResult([k \in 1..Len(order) |-> RowRecord(db.rows[order[k]])])

\* get_plan_by_id that takes the row at position plan_id
GetPlanByIdAtPosition(db, plan_id) ==
    IF plan_id < 1 \/ plan_id >= Len(db.rows)
    THEN [found |-> FALSE, raised |-> FALSE, ret |-> PyNone]
    ELSE RowRecord(db.rows[plan_id + 1])

\* get_plan_by_id(plan_id): found is FALSE for None
GetPlanById(db, plan_id) ==
    IF \A k \in 1..Len(db.rows) : db.rows[k].id # plan_id
    THEN [found |-> FALSE, raised |-> FALSE, ret |-> PyNone]
    ELSE LET row == db.rows[CHOOSE k \in 1..Len(db.rows) : db.rows[k].id = plan_id]
         IN  RowDict(row, JsonLoads(row.plan_data), RowMetadata(row.metadata))

\* the names PlanStep(**step) accepts
StepFields == {<<"s","t","e","p","_","n","u","m","b","e","r">>, <<"t","i","t","l","e">>, <<"d","e","s","c","r","i","p","t","i","o","n">>, <<"t","i","m","e">>, <<"l","o","c","a","t","i","o","n">>, <<"a","d","d","i","t","i","o","n","a","l","_","i","n","f","o">>}

\* PlanStep(**step): ok is FALSE where the call raises TypeError
StepFromDict(step) ==
    IF \/ step.t # "dict"
       \/ \E k \in 1..Len(step.v) : step.v[k][1] \notin StepFields
       \/ \E f \in {<<"s","t","e","p","_","n","u","m","b","e","r">>, <<"t","i","t","l","e">>, <<"d","e","s","c","r","i","p","t","i","o","n">>} : ~DictHas(step, f)
    THEN [ok |-> FALSE, val |-> PyNone]
    ELSE [ok |-> TRUE,
          val |-> [step_number |-> DictGet(step, <<"s","t","e","p","_","n","u","m","b","e","r">>, PyNone),
                   title |-> DictGet(step, <<"t","i","t","l","e">>, PyNone),
                   description |-> DictGet(step, <<"d","e","s","c","r","i","p","t","i","o","n">>, PyNone),
                   time |-> DictGet(step, <<"t","i","m","e">>, PyNone),
                   location |-> DictGet(step, <<"l","o","c","a","t","i","o","n">>, PyNone),
                   additional_info |-> DictGet(step, <<"a","d","d","i","t","i","o","n","a","l","_","i","n","f","o">>, PyNone)]]

\* the DayPlan the View Plan tab builds from one day dict
DayFromDict(day) ==
    LET number == Subscript(day, <<"d","a","y","_","n","u","m","b","e","r">>)
        theme  == Subscript(day, <<"t","h","e","m","e">>)
        steps  == Subscript(day, <<"s","t","e","p","s">>)
        built  == [k \in 1..Len(steps.val.v) |-> StepFromDict(steps.val.v[k])]
    IN  IF ~number.ok \/ ~theme.ok \/ ~steps.ok \/ steps.val.t # "list"
        THEN [ok |-> FALSE, val |-> PyNone]
        ELSE IF \E k \in 1..Len(built) : ~built[k].ok THEN [ok |-> FALSE, val |-> PyNone]
        ELSE [ok |-> TRUE,
              val |-> [day_number |-> number.val, theme |-> theme.val,
                       steps |-> [k \in 1..Len(built) |-> built[k].val],
                       date |-> DictGet(day, <<"d","a","t","e">>, PyNone),
                       weather_info |-> DictGet(day, <<"w","e","a","t","h","e","r","_","i","n","f","o">>, PyNone)]]

\* the TaskPlan the View Plan tab builds from plan_data['plan']
PlanFromDict(plan) ==
    LET goal    == Subscript(plan, <<"g","o","a","l">>)
        created == Subscript(plan, <<"c","r","e","a","t","e","d","_","a","t">>)
        total   == Subscript(plan, <<"t","o","t","a","l","_","d","a","y","s">>)
        days    == Subscript(plan, <<"d","a","y","s">>)
        meta    == Subscript(plan, <<"m","e","t","a","d","a","t","a">>)
        built   == [k \in 1..Len(days.val.v) |-> DayFromDict(days.val.v[k])]
    IN  IF ~goal.ok \/ ~created.ok \/ ~total.ok \/ ~days.ok \/ ~meta.ok \/ days.val.t # "list"
        THEN [ok |-> FALSE, val |-> PyNone]
        ELSE IF \E k \in 1..Len(built) : ~built[k].ok THEN [ok |-> FALSE, val |-> PyNone]
        ELSE [ok |-> TRUE,
              val |-> TaskPlan(goal.val, created.val, total.val,
                               [k \in 1..Len(built) |-> built[k].val], meta.val)]

(***************************************************************************)
(* utils/llm_manager.py.  What the SDK client answers is an input of the   *)
(* model: an answer object, or an exception with its message.              *)
(***************************************************************************)
\* LLMProvider, each member by its value
Providers == {<<"o","p","e","n","r","o","u","t","e","r">>, <<"g","e","m","i","n","i">>, <<"o","l","l","a","m","a">>}

UpperChar(c) ==
    IF \E i \in 1..Len(LowerCase) : LowerCase[i] = c
    THEN UpperCase[CHOOSE i \in 1..Len(LowerCase) : LowerCase[i] = c]
    ELSE c

\* str.upper()
StrUpper(s) == [i \in 1..Len(s) |-> UpperChar(s[i])]

\* LLMManager.__init__
NewLLMManager == [provider |-> PyNone, client |-> PyNone, model_name |-> PyNone]

\* st.session_state when the session starts: no llm_initialized yet
NewSession == [llm_initialized |-> PyNone, current_plan |-> PyNone]

\* a client object of an SDK; "mock" is the MagicMock of the tests
Client(sdk) == [t |-> "client", v |-> <<sdk>>]

\* the calls a client object accepts
ClientMethods(client) ==
    CASE client = Client("openai") -> {"chat.completions.create"}
      [] client = Client("gemini") -> {"generate_content"}
      [] client = Client("ollama") -> {"chat"}
      [] client = Client("mock")   -> {"chat.completions.create", "generate_content", "chat"}
      [] OTHER                     -> {}

\* the answer of the SDK call: response.choices[i].message.content,
\* response.text, response['message']['content']
SdkResponse(choices, text, content) ==
    [kind |-> "response", choices |-> choices, text |-> text, content |-> content,
     message |-> <<>>]

SdkException(message) ==
    [kind |-> "exception", choices |-> <<>>, text |-> PyNone, content |-> PyNone,
     message |-> message]

Message(role, content) == [role |-> role, content |-> content]

\* what goes to the client: the method called, the model and the messages
\* (for generate_content the one text)
LLMRequest(method, model, messages) ==
    [method |-> method, model |-> model, messages |-> messages]

NoRequest == LLMRequest("", PyNone, <<>>)

\* the branch of generate taken for the provider, "" if none is
LLMMethod(provider) ==
    CASE provider = PyStr(<<"g","e","m","i","n","i">>)     -> "generate_content"
      [] provider = PyStr(<<"o","l","l","a","m","a">>)     -> "chat"
      [] provider = PyStr(<<"o","p","e","n","r","o","u","t","e","r">>) -> "chat.completions.create"
      [] OTHER                            -> ""

LLMModel(llm) ==
    CASE llm.provider = PyStr(<<"o","l","l","a","m","a">>)     -> PyStr(<<"m","i","s","t","r","a","l",":","7","b">>)
      [] llm.provider = PyStr(<<"o","p","e","n","r","o","u","t","e","r">>) -> llm.model_name
      [] OTHER                                -> PyNone

LLMMessages(provider, prompt, system_prompt) ==
    CASE provider = PyStr(<<"g","e","m","i","n","i">>) ->
            <<Message("", IF Truthy(system_prompt)
                          THEN PyFormat(system_prompt) \o <<"\n","\n">> \o PyFormat(prompt)
                          ELSE prompt.v)>>
      [] provider = PyStr(<<"o","l","l","a","m","a">>) ->
            <<Message("system", IF Truthy(system_prompt) THEN system_prompt.v ELSE <<>>),
              Message("user", prompt.v)>>
      [] provider = PyStr(<<"o","p","e","n","r","o","u","t","e","r">>) ->
            (IF Truthy(system_prompt) THEN <<Message("system", system_prompt.v)>> ELSE <<>>)
                \o <<Message("user", prompt.v)>>
      [] OTHER -> <<>>

\* the text taken out of the answer: the last choice instead of the first
LLMTextOfLastChoice(provider, answer) ==
    CASE provider = PyStr(<<"g","e","m","i","n","i">>) -> answer.text
      [] provider = PyStr(<<"o","l","l","a","m","a">>) -> answer.content
      [] OTHER                        -> answer.choices[Len(answer.choices)]

\* the text taken out of the answer
LLMText(provider, answer) ==
    CASE provider = PyStr(<<"g","e","m","i","n","i">>) -> answer.text
      [] provider = PyStr(<<"o","l","l","a","m","a">>) -> answer.content
      [] OTHER                        -> answer.choices[1]

GenerateResult(request, ret, raised, message) ==
    [request |-> request, ret |-> ret, raised |-> raised, message |-> message]

\* LLMManager.generate: the branch of the provider, the call of the client,
\* the text of the answer; an exception is shown with st.error and raised
\* again; with no branch taken the method ends without a return
Generate(llm, prompt, system_prompt, answer) ==
    IF LLMMethod(llm.provider) = ""
    THEN GenerateResult(NoRequest, PyNone, FALSE, <<>>)
    ELSE IF LLMMethod(llm.provider) \notin ClientMethods(llm.client)
    THEN GenerateResult(NoRequest, PyNone, TRUE, <<"A","t","t","r","i","b","u","t","e","E","r","r","o","r">>)
    ELSE IF answer.kind = "exception"
    THEN GenerateResult(LLMRequest(LLMMethod(llm.provider), LLMModel(llm),
                                   LLMMessages(llm.provider, prompt, system_prompt)),
                        PyNone, TRUE, answer.message)
    ELSE IF LLMMethod(llm.provider) = "chat.completions.create" /\ answer.choices = <<>>
    THEN GenerateResult(LLMRequest(LLMMethod(llm.provider), LLMModel(llm),
                                   LLMMessages(llm.provider, prompt, system_prompt)),
                        PyNone, TRUE, <<"l","i","s","t"," ","i","n","d","e","x"," ","o","u","t"," ","o","f"," ","r","a","n","g","e">>)
    ELSE GenerateResult(LLMRequest(LLMMethod(llm.provider), LLMModel(llm),
                                   LLMMessages(llm.provider, prompt, system_prompt)),
                        LLMText(llm.provider, answer), FALSE, <<>>)

\* the SDK whose client initialize makes for the provider
SdkOf(provider) ==
    CASE provider = PyStr(<<"g","e","m","i","n","i">>) -> "gemini"
      [] provider = PyStr(<<"o","l","l","a","m","a">>) -> "ollama"
      [] OTHER                        -> "openai"

\* the exception met inside the try of initialize, if any: the checks of the
\* arguments, then the making of the client and the verification call
\* (verify: what that call does)
InitializeError(provider, api_key, model_name, verify) ==
    CASE provider = PyStr(<<"o","p","e","n","r","o","u","t","e","r">>) /\ ~Truthy(api_key) ->
            [failed |-> TRUE, client |-> FALSE, message |-> <<"O","p","e","n","R","o","u","t","e","r"," ","A","P","I"," ","K","e","y"," ","i","s"," ","r","e","q","u","i","r","e","d",".">>]
      [] provider = PyStr(<<"o","p","e","n","r","o","u","t","e","r">>) /\ Truthy(api_key) /\ ~Truthy(model_name) ->
            [failed |-> TRUE, client |-> FALSE, message |-> <<"O","p","e","n","R","o","u","t","e","r"," ","m","o","d","e","l"," ","n","a","m","e"," ","i","s"," ","r","e","q","u","i","r","e","d",".">>]
      [] provider = PyStr(<<"g","e","m","i","n","i">>) /\ ~Truthy(api_key) ->
            [failed |-> TRUE, client |-> FALSE, message |-> <<"G","e","m","i","n","i"," ","A","P","I"," ","K","e","y"," ","i","s"," ","r","e","q","u","i","r","e","d",".">>]
      [] OTHER ->
            [failed |-> verify.kind = "exception", client |-> TRUE, message |-> verify.message]

InitializeResult(llm, session, raised, message, request) ==
    [llm |-> llm, session |-> session, raised |-> raised, message |-> message,
     request |-> request]

\* the request of the verification call
VerifyRequest(provider, model_name) ==
    CASE provider = PyStr(<<"g","e","m","i","n","i">>) ->
            LLMRequest("generate_content", PyNone, <<Message("", <<"h","i">>)>>)
      [] provider = PyStr(<<"o","l","l","a","m","a">>) ->
            LLMRequest("list", PyNone, <<>>)
      [] OTHER ->
            LLMRequest("chat.completions.create", model_name, <<Message("user", <<"h","i">>)>>)

\* initialize where the except keeps the client it had made
InitializeKeepsClient(llm, session, provider, api_key, model_name, verify) ==
    IF InitializeError(provider, api_key, model_name, verify).failed
    THEN InitializeResult(
            [provider |-> provider,
             client |-> IF InitializeError(provider, api_key, model_name, verify).client
                        THEN Client(SdkOf(provider)) ELSE llm.client,
             model_name |-> model_name],
            [session EXCEPT !.llm_initialized = PyBool(FALSE)],
            TRUE,
            <<"F","a","i","l","e","d"," ","t","o"," ","i","n","i","t","i","a","l","i","z","e"," ">> \o StrUpper(provider.v) \o <<":"," ">>
                \o InitializeError(provider, api_key, model_name, verify).message,
            IF InitializeError(provider, api_key, model_name, verify).client
            THEN VerifyRequest(provider, model_name) ELSE NoRequest)
    ELSE InitializeResult(
            [provider |-> provider, client |-> Client(SdkOf(provider)),
             model_name |-> model_name],
            [session EXCEPT !.llm_initialized = PyBool(TRUE)],
            FALSE, <<>>, VerifyRequest(provider, model_name))

\* LLMManager.initialize
Initialize(llm, session, provider, api_key, model_name, verify) ==
    IF InitializeError(provider, api_key, model_name, verify).failed
    THEN InitializeResult(
            [provider |-> provider, client |-> PyNone, model_name |-> model_name],
            [session EXCEPT !.llm_initialized = PyBool(FALSE)],
            TRUE,
            <<"F","a","i","l","e","d"," ","t","o"," ","i","n","i","t","i","a","l","i","z","e"," ">> \o StrUpper(provider.v) \o <<":"," ">>
                \o InitializeError(provider, api_key, model_name, verify).message,
            IF InitializeError(provider, api_key, model_name, verify).client
            THEN VerifyRequest(provider, model_name) ELSE NoRequest)
    ELSE InitializeResult(
            [provider |-> provider, client |-> Client(SdkOf(provider)),
             model_name |-> model_name],
            [session EXCEPT !.llm_initialized = PyBool(TRUE)],
            FALSE, <<>>, VerifyRequest(provider, model_name))

(***************************************************************************)
(* main.py: its own LLMManager and TaskPlanner, and the two buttons of the *)
(* page.  Its tools, its parser and its database are copies of utils/.     *)
(***************************************************************************)
\* LLMProvider of main.py
MainProviders == Providers \cup {<<"c","h","a","t","g","p","t">>, <<"d","e","e","p","s","e","e","k">>}

\* initialize of main.py: the provider is assigned, then the client is made;
\* construct is what making the client does ("raise": OpenAI(api_key=None)
\* with no OPENAI_API_KEY in the environment).  No try, no verification.
MainInitialize(llm, provider, api_key, construct) ==
    IF /\ provider \in {PyStr(<<"o","p","e","n","r","o","u","t","e","r">>), PyStr(<<"c","h","a","t","g","p","t">>)}
       /\ api_key = PyNone
       /\ construct = "raise"
    THEN [llm |-> [llm EXCEPT !.provider = provider], raised |-> TRUE,
          message |-> <<"T","h","e"," ","a","p","i","_","k","e","y"," ","c","l","i","e","n","t"," ","o","p","t","i","o","n"," ","m","u","s","t"," ","b","e"," ","s","e","t">>]
    ELSE [llm |-> [llm EXCEPT !.provider = provider, !.client = Client(SdkOf(provider))],
          raised |-> FALSE, message |-> <<>>]

\* the branch of generate of main.py taken for the provider
MainMethod(provider) ==
    IF provider \in {PyStr(<<"c","h","a","t","g","p","t">>), PyStr(<<"d","e","e","p","s","e","e","k">>)}
    THEN "chat.completions.create"
    ELSE LLMMethod(provider)

\* generate of main.py: the text of the answer; None after st.error where
\* anything raises, and None where no branch is taken
MainGenerate(llm, answer) ==
    IF MainMethod(llm.provider) = "" THEN [ret |-> PyNone, shown |-> <<>>]
    ELSE IF MainMethod(llm.provider) \notin ClientMethods(llm.client)
    THEN [ret |-> PyNone, shown |-> <<<<"L","L","M"," ","E","r","r","o","r",":"," ","A","t","t","r","i","b","u","t","e","E","r","r","o","r">>>>]
    ELSE IF answer.kind = "exception"
    THEN [ret |-> PyNone, shown |-> <<<<"L","L","M"," ","E","r","r","o","r",":"," ">> \o answer.message>>]
    ELSE IF MainMethod(llm.provider) = "chat.completions.create" /\ answer.choices = <<>>
    THEN [ret |-> PyNone, shown |-> <<<<"L","L","M"," ","E","r","r","o","r",":"," ","l","i","s","t"," ","i","n","d","e","x"," ","o","u","t"," ","o","f"," ","r","a","n","g","e">>>>]
    ELSE [ret |-> LLMText(llm.provider, answer), shown |-> <<>>]

\* except: pass, then the fallback
AnalyzeFallback(r) == IF r.raised THEN DefaultPlanInfo ELSE r.ret

\* _analyze_goal of main.py from the response on: the search and json.loads
\* are inside try/except, anything that raises gives the fallback
MainAnalyzeGoal(response) == AnalyzeFallback(AnalyzeGoal(response))

\* _gather_information, the part for a location; net is what requests.get
\* does for the searches and for the forecast
MainGatherLocation(plan_info, weather_key, net) ==
    IF HasLocation(plan_info)
    THEN DictSet(DictSet(PyDict(<<>>), <<"s","e","a","r","c","h","_","r","e","s","u","l","t","s">>,
                         WebSearch(LocationQuery(plan_info), 5, net.search).ret),
                 <<"w","e","a","t","h","e","r">>,
                 GetForecast(weather_key, DictGet(plan_info, <<"l","o","c","a","t","i","o","n">>, PyNone),
                             ForecastDays(plan_info), net.forecast).ret)
    ELSE PyDict(<<>>)

RECURSIVE MainGatherThemes(_, _, _, _)
\* _gather_information, the loop over key_themes from theme i on
MainGatherThemes(data, themes, i, net) ==
    IF i > Len(themes) THEN data
    ELSE MainGatherThemes(DictSet(data, ThemeKey(themes[i]),
                                  WebSearch(ThemeQuery(themes[i]), 3, net.search).ret),
                          themes, i + 1, net)

RECURSIVE ParseLines(_, _, _, _)
\* the loop of _parse_plan_response from line i on
ParseLines(st, lines, i, enrichment_data) ==
    IF i > Len(lines) \/ st.raised THEN st
    ELSE ParseLines(ParseLine(st, lines[i], enrichment_data), lines, i + 1, enrichment_data)

\* _generate_plan from the response on: None has no split
MainParse(goal, response, plan_info, enrichment_data, now) ==
    IF response.t # "str" THEN [raised |-> TRUE, ret |-> PyNone]
    ELSE ParseFinish(ParseLines(ParserStart, StrSplit(response.v, "\n"), 1, enrichment_data),
                     goal, response.v, plan_info, enrichment_data, now)

\* planner.plan(goal) of main.py from the analysis on
MainPlanFrom(goal, plan_info, weather_key, response, net, now) ==
    MainParse(goal, response, plan_info,
              MainGatherThemes(MainGatherLocation(plan_info, weather_key, net),
                               KeyThemes(plan_info).v, 1, net),
              now)

\* planner.plan(goal) of main.py: analysis and generation are the answers of
\* the client to the two calls of generate
MainPlan(llm, goal, weather_key, analysis, generation, net, now) ==
    MainPlanFrom(goal, MainAnalyzeGoal(MainGenerate(llm, analysis).ret), weather_key,
                 MainGenerate(llm, generation).ret, net, now)

\* the try of the Generate Plan button, r being what planner.plan did:
\* save_plan, current_plan and the success message, or the error message
GeneratePlanTry(session, db, r, shown) ==
    IF r.raised
    THEN [planned |-> TRUE, session |-> session, db |-> db,
          shown |-> shown \o <<<<"E","r","r","o","r"," ","c","r","e","a","t","i","n","g"," ","p","l","a","n">>>>]
    ELSE [planned |-> TRUE,
          session |-> [session EXCEPT !.current_plan = r.ret],
          db |-> SavePlan(db, r.ret).db,
          shown |-> shown \o <<<<"P","l","a","n"," ","c","r","e","a","t","e","d"," ","s","u","c","c","e","s","s","f","u","l","l","y">>>>]

\* the Generate Plan button: the two checks, then planner.plan, save_plan and
\* current_plan inside try/except
GeneratePlan(llm, session, db, goal, weather_key, analysis, generation, net, now) ==
    IF goal = <<>>
    THEN [planned |-> FALSE, session |-> session, db |-> db,
          shown |-> <<<<"P","l","e","a","s","e"," ","e","n","t","e","r"," ","a"," ","g","o","a","l">>>>]
    ELSE IF ~Truthy(llm.provider)
    THEN [planned |-> FALSE, session |-> session, db |-> db,
          shown |-> <<<<"P","l","e","a","s","e"," ","i","n","i","t","i","a","l","i","z","e"," ","L","L","M"," ","p","r","o","v","i","d","e","r"," ","f","i","r","s","t">>>>]
    ELSE GeneratePlanTry(session, db,
                         MainPlan(llm, goal, weather_key, analysis, generation, net, now),
                         MainGenerate(llm, analysis).shown \o MainGenerate(llm, generation).shown)

(***************************************************************************)
(* The inputs: goals, what the LLM answers, what the network does.         *)
(***************************************************************************)
Goals == {<<"t","r","i","p">>, <<"P","l","a","n"," ","\"","2"," ","d","a","y","s","\"">>}

\* goal-analysis answers are drawn over these characters
AnalysisAlphabet == {"{", "}", "x"}

\* all strings over alphabet of length n
RECURSIVE StringsOfLen(_, _)
StringsOfLen(alphabet, n) ==
    IF n = 0 THEN {<<>>}
    ELSE {Append(s, c) : s \in StringsOfLen(alphabet, n - 1), c \in alphabet}

StringsUpTo(alphabet, n) == UNION {StringsOfLen(alphabet, k) : k \in 0..n}

\* the answer of tests/test_planner.py, and two answers in double braces
TestAnalysis == <<"{","\"","d","u","r","a","t","i","o","n","_","d","a","y","s","\"",":"," ","1",","," ","\"","l","o","c","a","t","i","o","n","\"",":"," ","\"","T","e","s","t"," ","C","i","t","y","\"",","," ","\"","k","e","y","_","t","h","e","m","e","s","\"",":"," ","[","\"","t","e","s","t","i","n","g","\"","]","}">>

AnalysisTexts ==
    StringsUpTo(AnalysisAlphabet, MaxAnalysisLen)
        \cup {TestAnalysis, <<"{","{","\"","d","u","r","a","t","i","o","n","_","d","a","y","s","\"",":"," ","2","}","}">>, <<"H","e","r","e",":"," ","{","\"","l","o","c","a","t","i","o","n","\"",":"," ","\"","G","o","a","\"","}"," ","o","k">>}

\* the lines a plan-generation answer is made of
LongLine == [i \in 1..LongLineLen |-> "x"]

Lines ==
    {<<"D","a","y"," ","1">>, <<"1","."," ","M","o","n","d","a","y">>, <<"1","."," ","F","o","r","t">>, <<"4","."," ","L","u","n","c","h">>, <<"U+2022"," ","Z","o","o">>,
     <<"S","u","n","-","s","e","t">>, <<"I","n","t","r","o">>, <<" "," ","2","."," ","S","p","a"," ">>, <<" "," ">>}

\* the lines of the answers in the whole pipeline
FlowLines == {<<"D","a","y"," ","1">>, <<"1","."," ","F","o","r","t">>, <<"U+2022"," ","Z","o","o">>, <<"I","n","t","r","o">>, LongLine}

\* all sequences over lines of length n
RECURSIVE LineSeqs(_, _)
LineSeqs(lines, n) ==
    IF n = 0 THEN {<<>>}
    ELSE {Append(s, l) : s \in LineSeqs(lines, n - 1), l \in lines}

\* the answers of up to n lines, joined by newlines
Responses(lines, n) ==
    {StrJoin(s, <<"\n">>) : s \in UNION {LineSeqs(lines, k) : k \in 0..n}}

\* what llm.generate does: it returns a str, returns None, or raises
LLMRaises == [t |-> "raise", v |-> <<>>]

AnalysisOutcomes == {PyStr(s) : s \in AnalysisTexts} \cup {PyNone, LLMRaises}

GenerationOutcomes == {PyStr(s) : s \in Responses(FlowLines, MaxFlowLines)} \cup {PyNone, LLMRaises}

\* requests.get for the search: a page (whatever its text), an error status, a timeout
NoHttp == HttpResponse(0, <<>>, PyNone)

SearchHttp ==
    {HttpResponse(200, <<"<","h","t","m","l",">","a","<","/","h","t","m","l",">">>, PyNone), HttpResponse(200, <<"R","e","s","u","l","t"," ","9"," ","f","o","r",":"," ","b">>, PyNone),
     HttpResponse(503, <<"b","u","s","y">>, PyNone), HttpException(<<"t","i","m","e","d"," ","o","u","t">>)}

FlowSearchHttp == {HttpResponse(200, <<"<","h","t","m","l",">","a","<","/","h","t","m","l",">">>, PyNone), HttpException(<<"t","i","m","e","d"," ","o","u","t">>)}

\* one element of the 'list' of the forecast API
ForecastItem(temp) ==
    PyDict(<< <<<<"m","a","i","n">>, PyDict(<< <<<<"t","e","m","p">>, PyInt(temp)>>, <<<<"h","u","m","i","d","i","t","y">>, PyInt(50)>> >>)>>,
              <<<<"w","e","a","t","h","e","r">>, PyList(<<PyDict(<< <<<<"d","e","s","c","r","i","p","t","i","o","n">>, PyStr(<<"c","l","e","a","r"," ","s","k","y">>)>> >>)>>)>> >>)

ForecastData(items) ==
    PyDict(<< <<<<"c","i","t","y">>, PyDict(<< <<<<"n","a","m","e">>, PyStr(<<"T","e","s","t"," ","C","i","t","y">>)>> >>)>>,
              <<<<"l","i","s","t">>, PyList(items)>> >>)

WeatherHttp ==
    {HttpResponse(200, <<>>, ForecastData(<<ForecastItem(25)>>)),
     HttpResponse(200, <<>>, ForecastData(<<>>)),
     HttpResponse(404, <<>>, PyNone),
     HttpException(<<"t","i","m","e","d"," ","o","u","t">>)}

\* the OpenWeather key typed into the sidebar: none, or one
WeatherKeys == {PyStr(<<>>), PyStr(<<"k","1">>)}

\* plan infos handed to the pipeline past the analysis
PlanInfos ==
    {PyDict(<< <<<<"d","u","r","a","t","i","o","n","_","d","a","y","s">>, PyInt(2)>>, <<<<"l","o","c","a","t","i","o","n">>, PyStr(<<"G","o","a">>)>>,
               <<<<"k","e","y","_","t","h","e","m","e","s">>, PyList(<<PyStr(<<"f","o","o","d">>)>>)>> >>),
     PyDict(<< <<<<"l","o","c","a","t","i","o","n">>, PyStr(<<"G","o","a">>)>> >>),
     PyDict(<< <<<<"d","u","r","a","t","i","o","n","_","d","a","y","s">>, PyInt(3)>>, <<<<"l","o","c","a","t","i","o","n">>, PyStr(<<>>)>>,
               <<<<"k","e","y","_","t","h","e","m","e","s">>, PyList(<<PyStr(<<"a","r","t">>), PyStr(<<"f","o","o","d">>)>>)>> >>),
     PyDict(<<>>)}

\* enrichment data handed to _parse_plan_response called on its own
ParseEnrichments ==
    {PyDict(<<>>),
     PyDict(<< <<<<"w","e","a","t","h","e","r">>, DemoForecast(PyStr(<<"G","o","a">>), 1)>> >>),
     PyDict(<< <<<<"w","e","a","t","h","e","r">>, WeatherError(<<"W","e","a","t","h","e","r"," ","d","a","t","a"," ","u","n","a","v","a","i","l","a","b","l","e">>)>> >>)}

SearchQueries == {<<"t","e","s","t"," ","q","u","e","r","y">>, <<"b">>}

(***************************************************************************)
(* The state.                                                              *)
(***************************************************************************)
VARIABLES
    entry,        \* what the run entered: "plan", "info", "parse", "view", "search"
    pc,           \* where the run stands
    error,        \* the exception that left the run, "" if none
    goal,         \* the goal typed in
    weather_key,  \* WeatherTool.api_key
    plan_info,    \* the dict of _analyze_goal
    data,         \* enrichment_data of _gather_information
    theme_idx,    \* position of the loop over key_themes
    response,     \* the LLM's answer at hand
    lines,        \* response.split('\n')
    line_idx,     \* position of the loop over lines
    parser,       \* days, current_day, current_steps, day_counter, step_counter
    plan,         \* the TaskPlan returned
    calls,        \* the calls made to the LLM and the tools, in order
    warnings,     \* what st.warning has shown
    clock,        \* the time of day
    db,           \* the plans table
    plan_id,      \* the id save_plan returned
    shown,        \* the TaskPlan the View Plan tab rebuilt
    llm,          \* the LLMManager: provider, client, model_name
    session       \* st.session_state: llm_initialized, current_plan

vars == <<entry, pc, error, goal, weather_key, plan_info, data, theme_idx, response,
          lines, line_idx, parser, plan, calls, warnings, clock, db, plan_id, shown,
          llm, session>>

Call(kind, arg, num, http, ret, warned) ==
    [kind |-> kind, arg |-> arg, num |-> num, http |-> http, ret |-> ret, warned |-> warned]

\* what a run starts from, whatever it enters
Fresh ==
    /\ error = ""
    /\ theme_idx = 1
    /\ line_idx = 1
    /\ parser = ParserStart
    /\ plan = PyNone
    /\ calls = <<>>
    /\ warnings = <<>>
    /\ clock = 0
    /\ db = EmptyDb
    /\ plan_id = 0
    /\ shown = PyNone
    /\ llm = NewLLMManager
    /\ session = NewSession

\* the exception leaves the run
Raise(name) ==
    /\ pc' = "raised"
    /\ error' = name

(***************************************************************************)
(* TaskPlanner.plan, call by call.                                         *)
(***************************************************************************)
\* _analyze_goal: the first LLM call, the search for JSON, the fallback
AnalyzeGoalStep ==
    /\ pc = "analyze"
    /\ \E answer \in AnalysisOutcomes :
        /\ calls' = Append(calls, Call("llm", PyStr(<<"a","n","a","l","y","z","e">>), PyNone, NoHttp, PyNone, <<>>))
        /\ IF answer = LLMRaises
           THEN /\ Raise("LLMError")
                /\ UNCHANGED <<response, plan_info>>
           ELSE LET r == AnalyzeGoal(answer)
                IN  /\ response' = answer
                    /\ IF r.raised
                       THEN /\ Raise(IF answer.t = "str" THEN "JSONDecodeError" ELSE "TypeError")
                            /\ UNCHANGED plan_info
                       ELSE /\ pc' = "gather"
                            /\ plan_info' = r.ret
                            /\ UNCHANGED error
    /\ UNCHANGED <<llm, session>>
    /\ UNCHANGED <<entry, goal, weather_key, data, theme_idx, lines, line_idx, parser,
                   plan, warnings, clock, db, plan_id, shown>>

\* _gather_information with a location: the search for places and activities
SearchLocationStep ==
    /\ pc = "gather"
    /\ HasLocation(plan_info)
    /\ \E http \in FlowSearchHttp :
        LET query == LocationQuery(plan_info)
            r == WebSearch(query, 5, http)
        IN  /\ calls' = Append(calls, Call("search", PyStr(query), PyInt(5), http, r.ret, r.warnings))
            /\ warnings' = warnings \o r.warnings
            /\ data' = DictSet(PyDict(<<>>), <<"s","e","a","r","c","h","_","r","e","s","u","l","t","s">>, r.ret)
    /\ pc' = "weather"
    /\ response' = PyNone
    /\ UNCHANGED <<llm, session>>
    /\ UNCHANGED <<entry, error, goal, weather_key, plan_info, theme_idx, lines, line_idx,
                   parser, plan, clock, db, plan_id, shown>>

\* _gather_information with a location: the weather forecast
WeatherStep ==
    /\ pc = "weather"
    /\ \E http \in WeatherHttp :
        LET location == DictGet(plan_info, <<"l","o","c","a","t","i","o","n">>, PyNone)
            days == ForecastDays(plan_info)
            r == GetForecast(weather_key, location, days, http)
        IN  /\ calls' = Append(calls, Call("weather", location, days,
                                           IF r.requested THEN http ELSE NoHttp, r.ret, <<>>))
            /\ data' = DictSet(data, <<"w","e","a","t","h","e","r">>, r.ret)
    /\ pc' = "themes"
    /\ UNCHANGED <<llm, session>>
    /\ UNCHANGED <<entry, error, goal, weather_key, plan_info, theme_idx, response, lines,
                   line_idx, parser, plan, warnings, clock, db, plan_id, shown>>

\* _gather_information without a location goes straight to the themes
SkipLocationStep ==
    /\ pc = "gather"
    /\ ~HasLocation(plan_info)
    /\ pc' = "themes"
    /\ data' = PyDict(<<>>)
    /\ response' = PyNone
    /\ UNCHANGED <<llm, session>>
    /\ UNCHANGED <<entry, error, goal, weather_key, plan_info, theme_idx, lines, line_idx,
                   parser, plan, calls, warnings, clock, db, plan_id, shown>>

\* one pass of the loop over key_themes
ThemeSearchStep ==
    /\ pc = "themes"
    /\ theme_idx <= Len(KeyThemes(plan_info).v)
    /\ \E http \in FlowSearchHttp :
        LET theme == KeyThemes(plan_info).v[theme_idx]
            query == ThemeQuery(theme)
            r == WebSearch(query, 3, http)
        IN  /\ calls' = Append(calls, Call("search", PyStr(query), PyInt(3), http, r.ret, r.warnings))
            /\ warnings' = warnings \o r.warnings
            /\ data' = DictSet(data, ThemeKey(theme), r.ret)
    /\ theme_idx' = theme_idx + 1
    /\ UNCHANGED <<llm, session>>
    /\ UNCHANGED <<entry, pc, error, goal, weather_key, plan_info, response, lines, line_idx,
                   parser, plan, clock, db, plan_id, shown>>

\* a variant of GatherReturnStep that has the LLM sum up what was gathered
GatherReturnStepWithSummary ==
    /\ pc = "themes"
    /\ theme_idx > Len(KeyThemes(plan_info).v)
    /\ pc' = "generate"
    /\ calls' = Append(calls, Call("llm", PyStr(<<"s","u","m","m","a","r","i","s","e">>), PyNone, NoHttp, PyNone, <<>>))
    /\ UNCHANGED <<llm, session>>
    /\ UNCHANGED <<entry, error, goal, weather_key, plan_info, data, theme_idx, response,
                   lines, line_idx, parser, plan, warnings, clock, db, plan_id, shown>>

\* _gather_information returns and plan goes on to _generate_plan
GatherReturnStep ==
    /\ pc = "themes"
    /\ theme_idx > Len(KeyThemes(plan_info).v)
    /\ pc' = "generate"
    /\ UNCHANGED <<llm, session>>
    /\ UNCHANGED <<entry, error, goal, weather_key, plan_info, data, theme_idx, response,
                   lines, line_idx, parser, plan, calls, warnings, clock, db, plan_id, shown>>

\* _generate_plan: the second LLM call, then the first lines of
\* _parse_plan_response up to the loop
GeneratePlanStep ==
    /\ pc = "generate"
    /\ \E answer \in GenerationOutcomes :
        /\ calls' = Append(calls, Call("llm", PyStr(<<"g","e","n","e","r","a","t","e">>), PyNone, NoHttp, PyNone, <<>>))
        /\ IF answer = LLMRaises
           THEN /\ Raise("LLMError")
                /\ UNCHANGED <<response, lines>>
           ELSE IF answer.t # "str"
           THEN /\ Raise("AttributeError")
                /\ response' = answer
                /\ UNCHANGED lines
           ELSE /\ pc' = "parse"
                /\ response' = answer
                /\ lines' = StrSplit(answer.v, "\n")
                /\ UNCHANGED error
    /\ line_idx' = 1
    /\ parser' = ParserStart
    /\ UNCHANGED <<llm, session>>
    /\ UNCHANGED <<entry, goal, weather_key, plan_info, data, theme_idx, plan, warnings,
                   clock, db, plan_id, shown>>

\* one pass of the loop over lines
ParseLineStep ==
    /\ pc = "parse"
    /\ line_idx <= Len(lines)
    /\ LET st == ParseLine(parser, lines[line_idx], data)
       IN  /\ parser' = st
           /\ IF st.raised
              THEN Raise("IndexError")
              ELSE UNCHANGED <<pc, error>>
    /\ line_idx' = line_idx + 1
    /\ UNCHANGED <<llm, session>>
    /\ UNCHANGED <<entry, goal, weather_key, plan_info, data, theme_idx, response, lines,
                   plan, calls, warnings, clock, db, plan_id, shown>>

\* after the loop: the last day, the fallback, the TaskPlan; plan returns it
ParseReturnStep ==
    /\ pc = "parse"
    /\ line_idx > Len(lines)
    /\ \E now \in clock..MaxClock :
        LET r == ParseFinish(parser, goal, response.v, plan_info, data, now)
        IN  /\ clock' = now
            /\ IF r.raised
               THEN /\ Raise("IndexError")
                    /\ UNCHANGED plan
               ELSE /\ pc' = "returned"
                    /\ plan' = r.ret
                    /\ UNCHANGED error
    /\ UNCHANGED <<llm, session>>
    /\ UNCHANGED <<entry, goal, weather_key, plan_info, data, theme_idx, response, lines,
                   line_idx, parser, calls, warnings, db, plan_id, shown>>

(***************************************************************************)
(* The pipeline: plan(goal), and the same from a given plan info on.       *)
(***************************************************************************)
Init ==
    /\ Fresh
    /\ goal \in Goals
    /\ weather_key \in {WeatherApiKey(k) : k \in WeatherKeys}
    /\ data = PyDict(<<>>)
    /\ response = PyNone
    /\ lines = <<>>
    /\ \/ entry = "plan" /\ pc = "analyze" /\ plan_info = PyNone
       \/ entry = "info" /\ pc = "gather" /\ plan_info \in PlanInfos

Next ==
    \/ AnalyzeGoalStep
    \/ SearchLocationStep
    \/ WeatherStep
    \/ SkipLocationStep
    \/ ThemeSearchStep
    \/ GatherReturnStep
    \/ GeneratePlanStep
    \/ ParseLineStep
    \/ ParseReturnStep

Spec == Init /\ [][Next]_vars

(***************************************************************************)
(* _parse_plan_response called on its own, line by line.                   *)
(***************************************************************************)
InitParse ==
    /\ Fresh
    /\ entry = "parse"
    /\ pc = "parse"
    /\ goal = <<"t","r","i","p">>
    /\ weather_key = WeatherApiKey(PyNone)
    /\ plan_info = DefaultPlanInfo
    /\ data \in ParseEnrichments
    /\ response \in {PyStr(s) : s \in Responses(Lines, MaxLines)}
    /\ lines = StrSplit(response.v, "\n")

NextParse ==
    \/ ParseLineStep
    \/ ParseReturnStep

SpecParse == InitParse /\ [][NextParse]_vars

(***************************************************************************)
(* _parse_plan_response called on its own on answers of several day        *)
(* sections: fewer kinds of line, more lines.                              *)
(***************************************************************************)
\* number of lines of an answer of several day sections
MaxSectionLines == 4

SectionLines ==
    {<<"D","a","y"," ","1">>, <<"1","."," ","M","o","n","d","a","y">>, <<" "," ","2","."," ","S","p","a"," ">>, <<"U+2022"," ","Z","o","o">>, <<"I","n","t","r","o">>}

InitSections ==
    /\ Fresh
    /\ entry = "parse"
    /\ pc = "parse"
    /\ goal = <<"t","r","i","p">>
    /\ weather_key = WeatherApiKey(PyNone)
    /\ plan_info = DefaultPlanInfo
    /\ data \in ParseEnrichments
    /\ response \in {PyStr(s) : s \in Responses(SectionLines, MaxSectionLines)}
    /\ lines = StrSplit(response.v, "\n")

SpecSections == InitSections /\ [][NextParse]_vars

(***************************************************************************)
(* main.py: a parsed plan is saved, and the View Plan tab reads it back.   *)
(***************************************************************************)
SavePlanStep ==
    /\ pc = "returned"
    /\ LET r == SavePlan(db, plan)
       IN  /\ db' = r.db
           /\ plan_id' = r.plan_id
    /\ pc' = "saved"
    /\ UNCHANGED <<llm, session>>
    /\ UNCHANGED <<entry, error, goal, weather_key, plan_info, data, theme_idx, response,
                   lines, line_idx, parser, plan, calls, warnings, clock, shown>>

\* the tab shows the rebuilt TaskPlan, or the rebuilding raises
ViewRebuilt(rebuilt) ==
    IF rebuilt.ok
    THEN /\ shown' = rebuilt.val
         /\ pc' = "viewed"
         /\ UNCHANGED error
    ELSE /\ Raise("ViewError")
         /\ UNCHANGED shown

\* if plan_data: the TaskPlan is rebuilt from plan_data['plan']
ViewPlanData(plan_data) ==
    IF plan_data.found /\ ~plan_data.raised
    THEN ViewRebuilt(PlanFromDict(DictGet(plan_data.ret, <<"p","l","a","n">>, PyNone)))
    ELSE /\ Raise("ViewError")
         /\ UNCHANGED shown

ViewPlanStep ==
    /\ pc = "saved"
    /\ ViewPlanData(GetPlanById(db, plan_id))
    /\ UNCHANGED <<llm, session>>
    /\ UNCHANGED <<entry, goal, weather_key, plan_info, data, theme_idx, response, lines,
                   line_idx, parser, plan, calls, warnings, clock, db, plan_id>>

\* the plan info and the enrichment data of the plans saved and viewed
ViewPlanInfos ==
    {DefaultPlanInfo,
     PyDict(<< <<<<"d","u","r","a","t","i","o","n","_","d","a","y","s">>, PyInt(2)>>, <<<<"l","o","c","a","t","i","o","n">>, PyStr(<<"G","o","a">>)>>,
               <<<<"k","e","y","_","t","h","e","m","e","s">>, PyList(<<PyStr(<<"f","o","o","d">>)>>)>> >>)}

InitView ==
    /\ Fresh
    /\ entry = "view"
    /\ pc = "parse"
    /\ goal \in Goals
    /\ weather_key = WeatherApiKey(PyNone)
    /\ plan_info \in ViewPlanInfos
    /\ data \in ParseEnrichments
    /\ response \in {PyStr(s) : s \in Responses(FlowLines, MaxFlowLines)}
    /\ lines = StrSplit(response.v, "\n")

NextView ==
    \/ ParseLineStep
    \/ ParseReturnStep
    \/ SavePlanStep
    \/ ViewPlanStep

SpecView == InitView /\ [][NextView]_vars

(***************************************************************************)
(* WebSearchTool.search called on its own, a few times in a row.           *)
(***************************************************************************)
MaxSearchCalls == 2

SearchCallStep ==
    /\ pc = "idle"
    /\ Len(calls) < MaxSearchCalls
    /\ \E query \in SearchQueries, num_results \in 0..MaxNumResults, http \in SearchHttp :
        LET r == WebSearch(query, num_results, http)
        IN  /\ calls' = Append(calls, Call("search", PyStr(query), PyInt(num_results), http,
                                           r.ret, r.warnings))
            /\ warnings' = warnings \o r.warnings
            /\ IF r.raised THEN Raise("RequestException") ELSE UNCHANGED <<pc, error>>
    /\ UNCHANGED <<llm, session>>
    /\ UNCHANGED <<entry, goal, weather_key, plan_info, data, theme_idx, response, lines,
                   line_idx, parser, plan, clock, db, plan_id, shown>>

InitSearch ==
    /\ Fresh
    /\ entry = "search"
    /\ pc = "idle"
    /\ goal = <<>>
    /\ weather_key = WeatherApiKey(PyNone)
    /\ plan_info = PyNone
    /\ data = PyDict(<<>>)
    /\ response = PyNone
    /\ lines = <<>>

NextSearch == SearchCallStep

SpecSearch == InitSearch /\ [][NextSearch]_vars

(***************************************************************************)
(* WeatherTool.get_forecast called on its own, on a tool made with or      *)
(* without a key.                                                          *)
(***************************************************************************)
\* largest days handed to get_forecast
MaxDays == 3

\* number of get_forecast calls of a run
MaxWeatherCalls == 1

\* the api_key handed to WeatherTool(...)
ToolKeys == {PyNone, PyStr(<<>>), PyStr(<<"t","e","s","t","_","k","e","y">>)}

\* what requests.get and response.json() give the forecast call: the answer
\* of the test, a list of ten forecasts, an empty list, an element without
\* 'main', an answer without 'city', no JSON at all, an error status, a timeout
ForecastHttp ==
    {HttpResponse(200, <<>>, ForecastData(<<ForecastItem(25)>>)),
     HttpResponse(200, <<>>, ForecastData([k \in 1..10 |-> ForecastItem(10 + k)])),
     HttpResponse(200, <<>>, ForecastData(<<>>)),
     HttpResponse(200, <<>>, ForecastData(<<PyDict(<< <<<<"w","e","a","t","h","e","r">>, PyList(<<>>)>> >>)>>)),
     HttpResponse(200, <<>>, PyDict(<< <<<<"l","i","s","t">>, PyList(<<ForecastItem(25)>>)>> >>)),
     HttpResponse(200, <<"<","h","t","m","l",">">>, PyNone),
     HttpResponse(404, <<>>, PyNone),
     HttpException(<<"t","i","m","e","d"," ","o","u","t">>)}

\* the days handed in: a number, or None
DaysArgs == {PyInt(d) : d \in 0..MaxDays} \cup {PyNone}

\* the locations asked for
ForecastLocations == {PyStr(<<"G","o","a">>), PyStr(<<"T","e","s","t"," ","C","i","t","y">>), PyStr(<<"P","a","r","i","s">>)}

WeatherCallStep ==
    /\ pc = "idle"
    /\ Len(calls) < MaxWeatherCalls
    /\ \E location \in ForecastLocations, days \in DaysArgs, http \in ForecastHttp :
        LET r == GetForecast(weather_key, location, days, http)
        IN  /\ calls' = Append(calls, Call("weather", location, days,
                                           IF r.requested THEN http ELSE NoHttp, r.ret, <<>>))
            /\ IF r.raised THEN Raise("WeatherError") ELSE UNCHANGED <<pc, error>>
    /\ UNCHANGED <<llm, session>>
    /\ UNCHANGED <<entry, goal, weather_key, plan_info, data, theme_idx, response, lines,
                   line_idx, parser, plan, warnings, clock, db, plan_id, shown>>

InitWeather ==
    /\ Fresh
    /\ entry = "weather"
    /\ pc = "idle"
    /\ goal = <<>>
    /\ weather_key \in {WeatherApiKey(k) : k \in ToolKeys}
    /\ plan_info = PyNone
    /\ data = PyDict(<<>>)
    /\ response = PyNone
    /\ lines = <<>>

NextWeather == WeatherCallStep

SpecWeather == InitWeather /\ [][NextWeather]_vars


(***************************************************************************)
(* An LLMManager over a session: initialize and generate, in any order.    *)
(***************************************************************************)
\* calls of initialize and generate in one run
MaxLLMCalls == 2

Prompts == {PyStr(<<"t","e","s","t"," ","p","r","o","m","p","t">>)}

SystemPrompts == {PyNone, PyStr(<<>>), PyStr(<<"B","e"," ","b","r","i","e","f",".">>)}

\* what the SDK call does: the answer of the test with a second choice, an
\* answer without choices, an exception
SdkAnswers ==
    {SdkResponse(<<PyStr(<<"T","h","i","s"," ","i","s"," ","a"," ","m","o","c","k"," ","r","e","s","p","o","n","s","e",".">>), PyStr(<<"S","e","c","o","n","d",".">>)>>,
                 PyStr(<<"G","e","m","i","n","i"," ","s","a","y","s",".">>), PyStr(<<"O","l","l","a","m","a"," ","s","a","y","s",".">>)),
     SdkResponse(<<>>, PyStr(<<"G","e","m","i","n","i"," ","s","a","y","s",".">>), PyStr(<<"O","l","l","a","m","a"," ","s","a","y","s",".">>)),
     SdkException(<<"r","a","t","e"," ","l","i","m","i","t">>)}

LLMKeys == {PyNone, PyStr(<<>>), PyStr(<<"s","k","-","1","2","3","4","5">>)}

ModelNames == {PyNone, PyStr(<<"m","i","s","t","r","a","l","-","7","b">>)}

\* the manager of the test: provider and client are assigned, not initialized
TestLLMManager ==
    [provider |-> PyStr(<<"o","p","e","n","r","o","u","t","e","r">>), client |-> Client("mock"), model_name |-> PyNone]

\* what a call raised
Raised(message) == [t |-> "raise", v |-> message]

\* what went to the client and what came back
Exchange(request, answer) == [request |-> request, answer |-> answer]

InitializeStep ==
    /\ pc = "idle"
    /\ Len(calls) < MaxLLMCalls
    /\ \E provider \in Providers, api_key \in LLMKeys, model_name \in ModelNames,
          verify \in SdkAnswers :
        LET r == Initialize(llm, session, PyStr(provider), api_key, model_name, verify)
        IN  /\ llm' = r.llm
            /\ session' = r.session
            /\ calls' = Append(calls, Call("initialize", PyStr(provider),
                                <<api_key, model_name>>,
                                Exchange(r.request,
                                         IF r.request = NoRequest THEN NoRequest ELSE verify),
                                IF r.raised THEN Raised(r.message) ELSE PyNone, <<>>))
    /\ UNCHANGED <<entry, pc, error, goal, weather_key, plan_info, data, theme_idx, response,
                   lines, line_idx, parser, plan, warnings, clock, db, plan_id, shown>>

GenerateStep ==
    /\ pc = "idle"
    /\ Len(calls) < MaxLLMCalls
    /\ \E prompt \in Prompts, system_prompt \in SystemPrompts, answer \in SdkAnswers :
        LET r == Generate(llm, prompt, system_prompt, answer)
        IN  calls' = Append(calls, Call("generate", prompt, system_prompt,
                                Exchange(r.request,
                                         IF r.request = NoRequest THEN NoRequest ELSE answer),
                                IF r.raised THEN Raised(r.message) ELSE r.ret,
                                IF r.raised THEN <<<<"L","L","M"," ","E","r","r","o","r",":"," ">> \o r.message>> ELSE <<>>))
    /\ UNCHANGED <<entry, pc, error, goal, weather_key, plan_info, data, theme_idx, response,
                   lines, line_idx, parser, plan, warnings, clock, db, plan_id, shown, llm,
                   session>>

InitLLM ==
    /\ entry = "llm"
    /\ pc = "idle"
    /\ error = ""
    /\ goal = <<>>
    /\ weather_key = WeatherApiKey(PyNone)
    /\ plan_info = PyNone
    /\ data = PyDict(<<>>)
    /\ theme_idx = 1
    /\ response = PyNone
    /\ lines = <<>>
    /\ line_idx = 1
    /\ parser = ParserStart
    /\ plan = PyNone
    /\ calls = <<>>
    /\ warnings = <<>>
    /\ clock = 0
    /\ db = EmptyDb
    /\ plan_id = 0
    /\ shown = PyNone
    /\ llm \in {NewLLMManager, TestLLMManager}
    /\ session = NewSession

NextLLM ==
    \/ InitializeStep
    \/ GenerateStep

SpecLLM == InitLLM /\ [][NextLLM]_vars

(***************************************************************************)
(* The page of main.py: Initialize LLM and Generate Plan, pressed in any   *)
(* order.                                                                  *)
(***************************************************************************)
\* presses of a button in one run
MaxPresses == 3

\* the text area of the goal: empty, or a goal
UiGoals == {<<>>, <<"t","r","i","p">>}

\* api_key_input if api_key_input else os.getenv(...)
UiKeys == {PyNone, PyStr(<<"s","k","-","1","2","3","4","5">>)}

\* the client's answers while planning
UiAnswers ==
    {SdkResponse(<<PyStr(<<"D","a","y"," ","1","\n","1","."," ","F","o","r","t">>)>>, PyStr(<<"D","a","y"," ","1","\n","1","."," ","F","o","r","t">>),
                 PyStr(<<"D","a","y"," ","1","\n","1","."," ","F","o","r","t">>)),
     SdkException(<<"r","a","t","e"," ","l","i","m","i","t">>)}

\* what requests.get does while planning
UiNet ==
    [search |-> HttpResponse(200, <<"<","h","t","m","l",">","a","<","/","h","t","m","l",">">>, PyNone),
     forecast |-> HttpException(<<"t","i","m","e","d"," ","o","u","t">>)]

InitializePress ==
    /\ pc = "idle"
    /\ Len(calls) < MaxPresses
    /\ \E provider \in MainProviders, api_key \in UiKeys, construct \in {"ok", "raise"} :
        LET r == MainInitialize(llm, PyStr(provider), api_key, construct)
        IN  /\ llm' = r.llm
            /\ calls' = Append(calls, Call("Initialize LLM", PyStr(provider), api_key, NoHttp,
                                IF r.raised THEN Raised(r.message) ELSE PyNone,
                                IF r.raised
                                THEN <<<<"F","a","i","l","e","d"," ","t","o"," ","i","n","i","t","i","a","l","i","z","e",":"," ">> \o r.message>>
                                ELSE <<<<"I","n","i","t","i","a","l","i","z","e","d"," ">> \o StrUpper(provider)>>))
    /\ UNCHANGED <<entry, pc, error, goal, weather_key, plan_info, data, theme_idx, response,
                   lines, line_idx, parser, plan, warnings, clock, db, plan_id, shown,
                   session>>

\* the press is logged with the goal, whether planner.plan was called, and
\* what the page showed
GeneratePlanPress ==
    /\ pc = "idle"
    /\ Len(calls) < MaxPresses
    /\ \E typed \in UiGoals, analysis \in UiAnswers, generation \in UiAnswers,
          now \in clock..MaxClock :
        LET r == GeneratePlan(llm, session, db, typed, weather_key, analysis, generation,
                              UiNet, now)
        IN  /\ session' = r.session
            /\ db' = r.db
            /\ plan_id' = r.db.seq
            /\ clock' = IF r.planned THEN now ELSE clock
            /\ calls' = Append(calls, Call("Generate Plan", PyStr(typed), PyBool(r.planned),
                                NoHttp, r.session.current_plan, r.shown))
    /\ UNCHANGED <<entry, pc, error, goal, weather_key, plan_info, data, theme_idx, response,
                   lines, line_idx, parser, plan, warnings, shown, llm>>

InitUI ==
    /\ Fresh
    /\ entry = "ui"
    /\ pc = "idle"
    /\ goal = <<>>
    /\ weather_key = WeatherApiKey(PyStr(<<>>))
    /\ plan_info = PyNone
    /\ data = PyDict(<<>>)
    /\ response = PyNone
    /\ lines = <<>>

NextUI ==
    \/ InitializePress
    \/ GeneratePlanPress

SpecUI == InitUI /\ [][NextUI]_vars

(***************************************************************************)
(* A DatabaseManager: save_plan, get_all_plans and get_plan_by_id called   *)
(* in any order.                                                           *)
(***************************************************************************)
\* plans saved in one run
MaxSaves == 2

\* the plans handed to save_plan: a parsed plan and a fallback plan, each
\* made at one of two times
DbPlans ==
    {MainParse(<<"t","r","i","p">>, PyStr(text), DefaultPlanInfo, PyDict(<<>>), now).ret :
        text \in {<<"D","a","y"," ","1","\n","1","."," ","F","o","r","t">>, <<"I","n","t","r","o">>}, now \in {0, 1}}

SavePlanCall ==
    /\ pc # "raised"
    /\ Len(db.rows) < MaxSaves
    /\ \E saved \in DbPlans :
        LET r == SavePlan(db, saved)
        IN  /\ db' = r.db
            /\ plan_id' = r.plan_id
            /\ calls' = Append(calls, Call("save_plan", saved, PyNone, NoHttp,
                                           PyInt(r.plan_id), <<>>))
    /\ pc' = "save_plan"
    /\ shown' = PyNone
    /\ UNCHANGED <<entry, error, goal, weather_key, plan_info, data, theme_idx, response,
                   lines, line_idx, parser, plan, warnings, clock, llm, session>>

\* what a read returned is kept in shown
ReadReturns(name, asked, r) ==
    /\ plan_id' = asked
    /\ IF r.raised
       THEN /\ Raise("JSONDecodeError")
            /\ shown' = PyNone
       ELSE /\ pc' = name
            /\ shown' = r.ret
            /\ UNCHANGED error

GetAllPlansCall ==
    /\ pc # "raised"
    /\ \E order \in AllPlansOrders(db.rows) :
        ReadReturns("get_all_plans", 0, GetAllPlans(db, order))
    /\ UNCHANGED <<entry, goal, weather_key, plan_info, data, theme_idx, response, lines,
                   line_idx, parser, plan, calls, warnings, clock, db, llm, session>>

GetPlanByIdCall ==
    /\ pc # "raised"
    /\ \E asked \in 0..(MaxSaves + 1) :
        ReadReturns("get_plan_by_id", asked, GetPlanById(db, asked))
    /\ UNCHANGED <<entry, goal, weather_key, plan_info, data, theme_idx, response, lines,
                   line_idx, parser, plan, calls, warnings, clock, db, llm, session>>

InitDb ==
    /\ Fresh
    /\ entry = "db"
    /\ pc = "idle"
    /\ goal = <<>>
    /\ weather_key = WeatherApiKey(PyNone)
    /\ plan_info = PyNone
    /\ data = PyDict(<<>>)
    /\ response = PyNone
    /\ lines = <<>>

NextDb ==
    \/ SavePlanCall
    \/ GetAllPlansCall
    \/ GetPlanByIdCall

SpecDb == InitDb /\ [][NextDb]_vars
(***************************************************************************)
(* The properties.  What a property says of the program is written here on *)
(* its own terms, with the Python str and dict operations above, and is    *)
(* compared with what the actions have done.                               *)
(***************************************************************************)
\* the calls of the run to the search and weather tools, in order
ToolCalls == SelectSeq(calls, LAMBDA c : c.kind \in {"search", "weather"})

\* the steps recorded so far, those of the closed days first
AllSteps(st) ==
    Flatten([k \in 1..Len(st.days) |-> st.days[k].steps], 1, Len(st.days)) \o st.current_steps

\* the lower-cased line contains "day" or the Russian word
ClaimMarker(line) ==
    \/ StrContains(StrLower(line), <<"d","a","y">>)
    \/ StrContains(StrLower(line), <<"U+0434","U+0435","U+043D","U+044C">>)

\* C1: in every run of plan(goal) that returns a plan the LLM is called
\* exactly twice, first for the analysis and last for the generation, and
\* every search and weather call of the run lies between those two calls.
C1_TwoLLMCalls ==
    (entry = "plan" /\ pc = "returned") =>
        /\ Cardinality({i \in 1..Len(calls) : calls[i].kind = "llm"}) = 2
        /\ calls[1].kind = "llm"
        /\ calls[1].arg = PyStr(<<"a","n","a","l","y","z","e">>)
        /\ calls[Len(calls)].kind = "llm"
        /\ calls[Len(calls)].arg = PyStr(<<"g","e","n","e","r","a","t","e">>)
        /\ \A i \in 2..(Len(calls) - 1) : calls[i].kind \in {"search", "weather"}

\* a run of plan(goal) has returned a plan, with a search between the LLM calls
C1_Returned ==
    /\ entry = "plan"
    /\ pc = "returned"
    /\ Len(calls) = 3
    /\ calls[2].kind = "search"

\* some day-marker line is followed by a step line before the next marker
ClaimDaySection(ls) ==
    \E i \in 1..Len(ls), j \in 1..Len(ls) :
        /\ i < j
        /\ ClaimMarker(StrStrip(ls[i]))
        /\ ~ClaimMarker(StrStrip(ls[j]))
        /\ IsStepLine(StrStrip(ls[j]))
        /\ \A k \in (i + 1)..(j - 1) : ~ClaimMarker(StrStrip(ls[k]))

\* C2: when the plan-generation response has no day section with a step (no
\* day-marker line, or marker lines with no step line after them, or nothing
\* at all), the plan returned has the goal handed in, total_days 1 and the
\* one day "Day 1: Main Plan" whose one step "Complete Plan" holds the first
\* 500 characters of the response.
C2_FallbackWithoutDaySection ==
    (pc = "returned" /\ ~ClaimDaySection(lines)) =>
        /\ plan.goal = PyStr(goal)
        /\ plan.total_days = PyInt(1)
        /\ Len(plan.days) = 1
        /\ plan.days[1].day_number = PyInt(1)
        /\ plan.days[1].theme = PyStr(<<"D","a","y"," ","1",":"," ","M","a","i","n"," ","P","l","a","n">>)
        /\ Len(plan.days[1].steps) = 1
        /\ plan.days[1].steps[1].step_number = PyInt(1)
        /\ plan.days[1].steps[1].title = PyStr(<<"C","o","m","p","l","e","t","e"," ","P","l","a","n">>)
        /\ plan.days[1].steps[1].description
               = PyStr(SubSeq(response.v, 1, MinOf(500, Len(response.v))))

\* the response "1. Fort\nDay 1" has come back as a day "Day 1" holding the step
C2_StepBeforeMarker ==
    /\ pc = "returned"
    /\ response = PyStr(<<"1","."," ","F","o","r","t","\n","D","a","y"," ","1">>)
    /\ plan.days[1].theme = PyStr(<<"D","a","y"," ","1">>)
    /\ plan.days[1].steps[1].description = PyStr(<<"F","o","r","t">>)

\* the JSON objects that stand in the text: what json.loads makes of the
\* stretches from an opening to a closing brace
ClaimJsonObjects(s) ==
    {JsonLoads(SubSeq(s, ij[1], ij[2])).val :
        ij \in {p \in (1..Len(s)) \X (1..Len(s)) :
                   /\ p[1] < p[2]
                   /\ s[p[1]] = "{"
                   /\ s[p[2]] = "}"
                   /\ JsonLoads(SubSeq(s, p[1], p[2])).ok}}

\* C3: when the analysis response contains a JSON object, _analyze_goal
\* returns that parsed object; only when it contains none does it return the
\* default plan info.
C3_AnalysisReturnsParsedObject ==
    (entry = "plan" /\ pc = "gather") =>
        IF ClaimJsonObjects(response.v) # {}
        THEN plan_info \in ClaimJsonObjects(response.v)
        ELSE plan_info = DefaultPlanInfo

\* the answer of the test has been analysed, and the default came back
C3_TestAnswerLost ==
    /\ entry = "plan"
    /\ pc = "gather"
    /\ response = PyStr(TestAnalysis)
    /\ plan_info = DefaultPlanInfo

\* C4: for every string the LLM returns, if the text matched as JSON fails to
\* parse or nothing matches, _analyze_goal of utils/planner.py returns the
\* default plan info and raises no exception.
C4_AnalysisFallsBack ==
    (/\ entry = "plan"
     /\ Len(calls) = 1
     /\ response.t = "str"
     /\ \/ ~ReSearchJson(response.v).found
        \/ ~JsonLoads(ReSearchJson(response.v).text).ok) =>
        /\ pc = "gather"
        /\ plan_info = DefaultPlanInfo

\* the answer "{{}}" has left _analyze_goal as a JSONDecodeError
C4_DecodeErrorRaised ==
    /\ entry = "plan"
    /\ pc = "raised"
    /\ error = "JSONDecodeError"
    /\ response = PyStr(<<"{","{","}","}">>)

\* the plan info has a location that is a non-empty str
ClaimLocated(info) ==
    /\ DictHas(info, <<"l","o","c","a","t","i","o","n">>)
    /\ DictGet(info, <<"l","o","c","a","t","i","o","n">>, PyNone).t = "str"
    /\ Len(DictGet(info, <<"l","o","c","a","t","i","o","n">>, PyNone).v) > 0

\* C5: _gather_information makes the location search and the weather lookup
\* (days = duration_days, 1 if absent) if and only if the plan info has a
\* non-empty location, and one theme search per entry of key_themes, kept
\* under 'theme_<theme>'; with the default plan info it makes one search and
\* no weather lookup, and the result has no 'weather' or 'search_results'.
C5_EnrichmentFollowsPlanInfo ==
    (pc = "generate") =>
        LET tools   == ToolCalls
            located == ClaimLocated(plan_info)
            loc     == DictGet(plan_info, <<"l","o","c","a","t","i","o","n">>, PyNone)
            themes  == DictGet(plan_info, <<"k","e","y","_","t","h","e","m","e","s">>, PyList(<<>>)).v
            off     == IF located THEN 2 ELSE 0
        IN  /\ Len(tools) = off + Len(themes)
            /\ located =>
                /\ tools[1].kind = "search"
                /\ tools[1].arg = PyStr(loc.v \o <<" ","a","t","t","r","a","c","t","i","o","n","s"," ","f","o","o","d"," ","c","u","l","t","u","r","e">>)
                /\ tools[1].num = PyInt(5)
                /\ tools[2].kind = "weather"
                /\ tools[2].arg = loc
                /\ tools[2].num = DictGet(plan_info, <<"d","u","r","a","t","i","o","n","_","d","a","y","s">>, PyInt(1))
                /\ DictHas(data, <<"s","e","a","r","c","h","_","r","e","s","u","l","t","s">>)
                /\ DictGet(data, <<"s","e","a","r","c","h","_","r","e","s","u","l","t","s">>, PyNone) = tools[1].ret
                /\ DictHas(data, <<"w","e","a","t","h","e","r">>)
                /\ DictGet(data, <<"w","e","a","t","h","e","r">>, PyNone) = tools[2].ret
            /\ ~located =>
                /\ ~DictHas(data, <<"w","e","a","t","h","e","r">>)
                /\ ~DictHas(data, <<"s","e","a","r","c","h","_","r","e","s","u","l","t","s">>)
            /\ \A k \in 1..Len(themes) :
                /\ tools[off + k].kind = "search"
                /\ tools[off + k].arg = PyStr(themes[k].v \o <<" ","t","i","p","s"," ","r","e","c","o","m","m","e","n","d","a","t","i","o","n","s">>)
                /\ DictHas(data, <<"t","h","e","m","e","_">> \o themes[k].v)
                /\ DictGet(data, <<"t","h","e","m","e","_">> \o themes[k].v, PyNone) = tools[off + k].ret
            /\ plan_info = DefaultPlanInfo =>
                /\ Len(tools) = 1
                /\ tools[1].kind = "search"

\* the enrichment of a plan info with a location and a theme is complete
C5_Enriched ==
    /\ pc = "generate"
    /\ ClaimLocated(plan_info)
    /\ Len(ToolCalls) = 3
    /\ ToolCalls[2].kind = "weather"
    /\ DictHas(data, <<"t","h","e","m","e","_","f","o","o","d">>)

\* C6: a non-blank trimmed line is a day marker exactly when its lower-cased
\* text contains "day" (or the Russian word): such a line becomes the current
\* day, the theme of the day section that follows, sets the step counter to
\* 1 and is not recorded as a step, even when it starts with a digit or a
\* bullet; any other line leaves the current day as it is.
C6_DayMarkerLine ==
    [][(/\ pc = "parse"
        /\ line_idx <= Len(lines)
        /\ line_idx' = line_idx + 1
        /\ ~parser'.raised
        /\ StrStrip(lines[line_idx]) # <<>>) =>
        /\ IF ClaimMarker(StrStrip(lines[line_idx]))
           THEN /\ parser'.current_day = PyStr(StrStrip(lines[line_idx]))
                /\ parser'.step_counter = 1
                /\ parser'.current_steps \in {parser.current_steps, <<>>}
                /\ AllSteps(parser') = AllSteps(parser)
           ELSE /\ parser'.current_day = parser.current_day
                /\ parser'.days = parser.days
        /\ Len(parser'.days) > Len(parser.days) =>
                parser'.days[Len(parser'.days)].theme = parser.current_day]_vars

\* the line "1. Monday" has become the current day, after a step was recorded
C6_DigitLineIsMarker ==
    /\ entry = "parse"
    /\ parser.current_day = PyStr(<<"1","."," ","M","o","n","d","a","y">>)
    /\ parser.step_counter = 1
    /\ Len(AllSteps(parser)) = 1

\* what the lines that start with a digit or a bullet leave of themselves
\* once their leading digits, dots, dashes, bullets and spaces are removed
ClaimStepDescriptions(ls, n) ==
    LET kept == SelectSeq([k \in 1..n |-> StrStrip(ls[k])],
                          LAMBDA l : /\ l # <<>>
                                     /\ ~ClaimMarker(l)
                                     /\ l[1] \in DigitSet \cup {"U+2022", "-", "*"})
    IN  [k \in 1..Len(kept) |->
            PyStr(StrLStrip(kept[k], DigitSet \cup {".", "-", "U+2022", " "}))]

\* C7: a non-blank line that is no day marker is recorded as a step exactly
\* when it starts with a digit or a bullet, and the description recorded is
\* the line without its leading digits, dots, dashes, bullets and spaces.
C7_StepLines ==
    (entry = "parse" /\ ~parser.raised) =>
        [k \in 1..Len(AllSteps(parser)) |-> AllSteps(parser)[k].description]
            = ClaimStepDescriptions(lines, line_idx - 1)

\* the line "4. Lunch" has been passed over
C7_FourthStepIgnored ==
    /\ entry = "parse"
    /\ lines = <<<<"D","a","y"," ","1">>, <<"4","."," ","L","u","n","c","h">>>>
    /\ line_idx = 3
    /\ AllSteps(parser) = <<>>

C9_PlaceholderResults ==
    (entry = "search") =>
        /\ \A k \in 1..Len(calls) :
            (calls[k].http.kind = "response" /\ calls[k].http.status = 200) =>
                /\ calls[k].ret.t = "list"
                /\ Len(calls[k].ret.v) = MinOf(calls[k].num.v, 3)
                /\ \A i \in 1..Len(calls[k].ret.v) :
                    /\ DictGet(calls[k].ret.v[i], <<"t","i","t","l","e">>, PyNone)
                           = PyStr(<<"R","e","s","u","l","t"," ">> \o IntToStr(i) \o <<" ","f","o","r",":"," ">> \o calls[k].arg.v)
                    /\ StrContains(DictGet(calls[k].ret.v[i], <<"s","n","i","p","p","e","t">>, PyStr(<<>>)).v,
                                   calls[k].arg.v)
                    /\ DictGet(calls[k].ret.v[i], <<"u","r","l">>, PyNone)
                           = PyStr(<<"h","t","t","p","s",":","/","/","e","x","a","m","p","l","e",".","c","o","m","/">> \o IntToStr(i - 1))
        /\ \A j \in 1..Len(calls), k \in 1..Len(calls) :
            (/\ calls[j].http.kind = "response"
             /\ calls[k].http.kind = "response"
             /\ calls[j].http.status = 200
             /\ calls[k].http.status = 200
             /\ calls[j].arg = calls[k].arg
             /\ calls[j].num = calls[k].num) =>
                calls[j].ret = calls[k].ret

\* the same search was made twice and met two different pages
C9_TwoPages ==
    /\ entry = "search"
    /\ Len(calls) = 2
    /\ calls[1].http.status = 200
    /\ calls[2].http.status = 200
    /\ calls[1].http.text # calls[2].http.text
    /\ calls[1].arg = calls[2].arg
    /\ calls[1].num = PyInt(5)
    /\ calls[2].num = PyInt(5)
    /\ Len(calls[2].ret.v) = 3

\* C10: search never raises: a status other than 200 gives the empty list,
\* and a request that throws gives the empty list and a warning.
C10_SearchNeverRaises ==
    (entry = "search") =>
        /\ pc # "raised"
        /\ \A k \in 1..Len(calls) :
            /\ (calls[k].http.kind = "response" /\ calls[k].http.status # 200) =>
                    /\ calls[k].ret = PyList(<<>>)
                    /\ calls[k].warned = <<>>
            /\ calls[k].http.kind = "exception" =>
                    /\ calls[k].ret = PyList(<<>>)
                    /\ Len(calls[k].warned) = 1
                    /\ StrContains(calls[k].warned[1], calls[k].http.message)

\* a request has timed out and another met a 503
C10_Failures ==
    /\ entry = "search"
    /\ Len(calls) = 2
    /\ calls[1].http.kind = "exception"
    /\ calls[2].http.status = 503
    /\ warnings = <<<<"S","e","a","r","c","h"," ","e","r","r","o","r",":"," ","t","i","m","e","d"," ","o","u","t">>>>

\* the mock forecast as the text describes it: entry i holds temp 24 + i
ClaimMock(location, days) ==
    PyDict(<< <<<<"l","o","c","a","t","i","o","n">>, location>>,
              <<<<"f","o","r","e","c","a","s","t">>,
                PyList([i \in 1..days |->
                    PyDict(<< <<<<"d","a","y">>, PyInt(i)>>,
                              <<<<"t","e","m","p">>, PyInt(24 + i)>>,
                              <<<<"c","o","n","d","i","t","i","o","n">>, PyStr(<<"C","l","e","a","r">>)>> >>)])>> >>)

\* C11: a WeatherTool made with None or '' as its key is in demo mode:
\* get_forecast(location, days) makes no HTTP request and returns the
\* location and a forecast of exactly days entries, entry i being
\* {'day': i, 'temp': 24 + i, 'condition': 'Clear'}; with a real key each
\* call makes exactly one HTTP request.
C11_DemoOrOneRequest ==
    (entry = "weather") =>
        /\ WeatherApiKey(PyNone) = PyStr(<<"d","e","m","o">>)
        /\ WeatherApiKey(PyStr(<<>>)) = PyStr(<<"d","e","m","o">>)
        /\ WeatherApiKey(PyStr(<<"t","e","s","t","_","k","e","y">>)) = PyStr(<<"t","e","s","t","_","k","e","y">>)
        /\ \A k \in 1..Len(calls) :
            calls[k].num.t = "int" =>
                IF weather_key = PyStr(<<"d","e","m","o">>)
                THEN /\ calls[k].http = NoHttp
                     /\ calls[k].ret = ClaimMock(calls[k].arg, calls[k].num.v)
                     /\ Len(DictGet(calls[k].ret, <<"f","o","r","e","c","a","s","t">>, PyNone).v) = calls[k].num.v
                ELSE calls[k].http \in ForecastHttp

\* a tool without a key was asked for three days
C11_DemoThreeDays ==
    /\ entry = "weather"
    /\ weather_key = PyStr(<<"d","e","m","o">>)
    /\ Len(calls) = 1
    /\ calls[1].num = PyInt(3)
    /\ calls[1].http = NoHttp
    /\ DictGet(calls[1].ret, <<"f","o","r","e","c","a","s","t">>, PyNone).v[3]
           = PyDict(<< <<<<"d","a","y">>, PyInt(3)>>, <<<<"t","e","m","p">>, PyInt(27)>>,
                       <<<<"c","o","n","d","i","t","i","o","n">>, PyStr(<<"C","l","e","a","r">>)>> >>)

\* x[key] of a dict, None where there is no such key
ClaimGet(x, key) == IF x.t = "dict" THEN DictGet(x, key, PyNone) ELSE PyNone

\* the element of the forecast list has all that a forecast entry is made of
ClaimItemComplete(item) ==
    /\ ClaimGet(ClaimGet(item, <<"m","a","i","n">>), <<"t","e","m","p">>) # PyNone
    /\ ClaimGet(ClaimGet(item, <<"m","a","i","n">>), <<"h","u","m","i","d","i","t","y">>) # PyNone
    /\ ClaimGet(item, <<"w","e","a","t","h","e","r">>).t = "list"
    /\ Len(ClaimGet(item, <<"w","e","a","t","h","e","r">>).v) > 0
    /\ ClaimGet(ClaimGet(item, <<"w","e","a","t","h","e","r">>).v[1], <<"d","e","s","c","r","i","p","t","i","o","n">>) # PyNone

\* an answer of the forecast API: a city name and a non-empty list of
\* complete elements
ClaimForecastAnswer(json) ==
    /\ ClaimGet(ClaimGet(json, <<"c","i","t","y">>), <<"n","a","m","e">>) # PyNone
    /\ ClaimGet(json, <<"l","i","s","t">>).t = "list"
    /\ Len(ClaimGet(json, <<"l","i","s","t">>).v) > 0
    /\ \A e \in 1..Len(ClaimGet(json, <<"l","i","s","t">>).v) :
            ClaimItemComplete(ClaimGet(json, <<"l","i","s","t">>).v[e])

\* the element entry i (from 1) is built from: data['list'][(i-1)*8] when that
\* index exists, the last element otherwise
ClaimItemOf(list, i) ==
    IF (i - 1) * 8 < Len(list) THEN list[(i - 1) * 8 + 1] ELSE list[Len(list)]

\* C12: with a real key and a 200 answer whose 'list' is non-empty,
\* get_forecast(location, days) returns the city name of the answer as
\* 'location' and a 'forecast' of exactly days entries numbered 1..days,
\* entry i built from data['list'][(i-1)*8] when that index exists and from
\* the last element otherwise.
C12_ForecastFromList ==
    (entry = "weather") =>
        \A k \in 1..Len(calls) :
            (/\ weather_key # PyStr(<<"d","e","m","o">>)
             /\ calls[k].num.t = "int"
             /\ calls[k].http.kind = "response"
             /\ calls[k].http.status = 200
             /\ ClaimForecastAnswer(calls[k].http.json)) =>
                LET list     == ClaimGet(calls[k].http.json, <<"l","i","s","t">>).v
                    forecast == ClaimGet(calls[k].ret, <<"f","o","r","e","c","a","s","t">>)
                IN  /\ ClaimGet(calls[k].ret, <<"l","o","c","a","t","i","o","n">>)
                           = ClaimGet(ClaimGet(calls[k].http.json, <<"c","i","t","y">>), <<"n","a","m","e">>)
                    /\ forecast.t = "list"
                    /\ Len(forecast.v) = calls[k].num.v
                    /\ \A i \in 1..Len(forecast.v) :
                        /\ ClaimGet(forecast.v[i], <<"d","a","y">>) = PyInt(i)
                        /\ ClaimGet(forecast.v[i], <<"t","e","m","p">>)
                               = ClaimGet(ClaimGet(ClaimItemOf(list, i), <<"m","a","i","n">>), <<"t","e","m","p">>)
                        /\ ClaimGet(forecast.v[i], <<"h","u","m","i","d","i","t","y">>)
                               = ClaimGet(ClaimGet(ClaimItemOf(list, i), <<"m","a","i","n">>), <<"h","u","m","i","d","i","t","y">>)
                        /\ ClaimGet(forecast.v[i], <<"c","o","n","d","i","t","i","o","n">>)
                               = ClaimGet(ClaimGet(ClaimItemOf(list, i), <<"w","e","a","t","h","e","r">>).v[1],
                                          <<"d","e","s","c","r","i","p","t","i","o","n">>)

\* three days were made from a list of ten: the first, the ninth and the last
C12_ThreeDaysOfTen ==
    /\ entry = "weather"
    /\ Len(calls) = 1
    /\ calls[1].num = PyInt(3)
    /\ calls[1].http.kind = "response"
    /\ Len(ClaimGet(calls[1].http.json, <<"l","i","s","t">>).v) = 10
    /\ ClaimGet(ClaimGet(calls[1].ret, <<"f","o","r","e","c","a","s","t">>).v[1], <<"t","e","m","p">>) = PyInt(11)
    /\ ClaimGet(ClaimGet(calls[1].ret, <<"f","o","r","e","c","a","s","t">>).v[2], <<"t","e","m","p">>) = PyInt(19)
    /\ ClaimGet(ClaimGet(calls[1].ret, <<"f","o","r","e","c","a","s","t">>).v[3], <<"t","e","m","p">>) = PyInt(20)

\* C13: get_forecast never raises and always returns a dict with a
\* 'forecast' or an 'error' key: a status other than 200 gives
\* {'error': 'Weather data unavailable'}, and an exception during the request
\* or the processing (an empty or malformed 'list' included) gives
\* {'error': <message>}.
C13_ForecastNeverRaises ==
    (entry = "weather") =>
        /\ pc # "raised"
        /\ \A k \in 1..Len(calls) :
            /\ calls[k].ret.t = "dict"
            /\ DictHas(calls[k].ret, <<"f","o","r","e","c","a","s","t">>) \/ DictHas(calls[k].ret, <<"e","r","r","o","r">>)
            /\ (calls[k].http.kind = "response" /\ calls[k].http.status \notin {0, 200}) =>
                    calls[k].ret = PyDict(<< <<<<"e","r","r","o","r">>, PyStr(<<"W","e","a","t","h","e","r"," ","d","a","t","a"," ","u","n","a","v","a","i","l","a","b","l","e">>)>> >>)
            /\ (\/ calls[k].http.kind = "exception"
                \/ calls[k].num.t # "int"
                \/ /\ calls[k].http.kind = "response"
                   /\ calls[k].http.status = 200
                   /\ calls[k].num.t = "int"
                   /\ calls[k].num.v > 0
                   /\ ~ClaimForecastAnswer(calls[k].http.json)) =>
                    /\ Len(calls[k].ret.v) = 1
                    /\ ClaimGet(calls[k].ret, <<"e","r","r","o","r">>).t = "str"
            /\ calls[k].http.kind = "exception" =>
                    calls[k].ret = PyDict(<< <<<<"e","r","r","o","r">>, PyStr(calls[k].http.message)>> >>)

\* an empty 'list' came back as an error
C13_EmptyListIsError ==
    /\ entry = "weather"
    /\ Len(calls) = 1
    /\ calls[1].http.kind = "response"
    /\ calls[1].http.status = 200
    /\ ClaimGet(calls[1].http.json, <<"l","i","s","t">>) = PyList(<<>>)
    /\ calls[1].num = PyInt(2)
    /\ DictHas(calls[1].ret, <<"e","r","r","o","r">>)

\* no system prompt was given: None, or the empty text
ClaimNoSystemPrompt(system_prompt) == system_prompt \in {PyNone, PyStr(<<>>)}

\* what C14 says of the generate call c made by a manager with that provider
ClaimDispatched(provider, c) ==
    CASE provider = PyStr(<<"o","p","e","n","r","o","u","t","e","r">>) ->
            /\ c.http.request.method = "chat.completions.create"
            /\ c.ret = c.http.answer.choices[1]
            /\ c.http.request.messages =
                    IF ClaimNoSystemPrompt(c.num)
                    THEN << [role |-> "user", content |-> c.arg.v] >>
                    ELSE << [role |-> "system", content |-> c.num.v],
                            [role |-> "user", content |-> c.arg.v] >>
      [] provider = PyStr(<<"g","e","m","i","n","i">>) ->
            /\ c.http.request.method = "generate_content"
            /\ c.ret = c.http.answer.text
      [] provider = PyStr(<<"o","l","l","a","m","a">>) ->
            /\ c.http.request.method = "chat"
            /\ c.ret = c.http.answer.content
      [] OTHER -> FALSE

\* the answer the client gave holds a text for that provider
ClaimAnswered(provider, c) ==
    /\ c.http.request # NoRequest
    /\ c.http.answer.kind = "response"
    /\ (provider = PyStr(<<"o","p","e","n","r","o","u","t","e","r">>)) => Len(c.http.answer.choices) > 0

\* C14: generate dispatches on the configured provider and returns the
\* provider's text: with OPENROUTER the content of the first choice of the
\* chat completion, with GEMINI the text of generate_content, with OLLAMA the
\* message content of chat; for OPENROUTER the messages are [user] when no
\* system prompt is given and [system, user] in that order when one is.
C14_GenerateDispatch ==
    [][(/\ entry = "llm"
        /\ Len(calls') = Len(calls) + 1
        /\ calls'[Len(calls')].kind = "generate"
        /\ ClaimAnswered(llm.provider, calls'[Len(calls')]))
            => ClaimDispatched(llm.provider, calls'[Len(calls')])]_vars

\* the manager of the test answered with the first choice, to a system and a
\* user message
C14_TestAnswer ==
    /\ entry = "llm"
    /\ llm = TestLLMManager
    /\ Len(calls) = 1
    /\ calls[1].kind = "generate"
    /\ calls[1].ret = PyStr(<<"T","h","i","s"," ","i","s"," ","a"," ","m","o","c","k"," ","r","e","s","p","o","n","s","e",".">>)
    /\ Len(calls[1].http.request.messages) = 2

\* C15: generate of utils/llm_manager.py has no retry and never returns
\* None: in every state of the manager an invocation makes exactly one call
\* to the provider client and returns the text of the answer, or raises.
C15_TextOrRaise ==
    (entry = "llm") =>
        \A k \in 1..Len(calls) :
            (calls[k].kind = "generate") =>
                /\ calls[k].ret.t \in {"str", "raise"}
                /\ (calls[k].ret.t = "str") => (calls[k].http.request # NoRequest)

\* a manager that was never initialized returned None and called no client
C15_FreshReturnsNone ==
    /\ entry = "llm"
    /\ llm = NewLLMManager
    /\ Len(calls) = 1
    /\ calls[1].kind = "generate"
    /\ calls[1].ret = PyNone
    /\ calls[1].http.request = NoRequest

\* the provider's name in the message of initialize
ClaimProviderName(provider) ==
    CASE provider = PyStr(<<"o","p","e","n","r","o","u","t","e","r">>) -> <<"O","P","E","N","R","O","U","T","E","R">>
      [] provider = PyStr(<<"g","e","m","i","n","i">>)     -> <<"G","E","M","I","N","I">>
      [] OTHER                            -> <<"O","L","L","A","M","A">>

\* the initialize call c lacks an argument it needs, or its verification failed
ClaimMustFail(c) ==
    \/ c.arg = PyStr(<<"o","p","e","n","r","o","u","t","e","r">>) /\ c.num[1] \in {PyNone, PyStr(<<>>)}
    \/ c.arg = PyStr(<<"o","p","e","n","r","o","u","t","e","r">>) /\ c.num[2] \in {PyNone, PyStr(<<>>)}
    \/ c.arg = PyStr(<<"g","e","m","i","n","i">>) /\ c.num[1] \in {PyNone, PyStr(<<>>)}
    \/ c.http.request # NoRequest /\ c.http.answer.kind = "exception"

ClaimFailedToInitialize(c) ==
    /\ c.ret.t = "raise"
    /\ StrAt(c.ret.v, 1, <<"F","a","i","l","e","d"," ","t","o"," ","i","n","i","t","i","a","l","i","z","e"," ">> \o ClaimProviderName(c.arg) \o <<":"," ">>)

\* C16: initialize raises 'Failed to initialize <PROVIDER>: ...' when
\* OPENROUTER comes without an API key or without a model name, when GEMINI
\* comes without an API key, or when the verification call fails; after
\* every failed initialize the client is None and llm_initialized is False,
\* also when an earlier initialize had succeeded.
C16_FailedInitialize ==
    [][(/\ entry = "llm"
        /\ Len(calls') = Len(calls) + 1
        /\ calls'[Len(calls')].kind = "initialize")
            => /\ ClaimMustFail(calls'[Len(calls')]) = ClaimFailedToInitialize(calls'[Len(calls')])
               /\ ClaimMustFail(calls'[Len(calls')]) = (calls'[Len(calls')].ret.t = "raise")
               /\ (calls'[Len(calls')].ret.t = "raise") =>
                    /\ llm'.client = PyNone
                    /\ session'.llm_initialized = PyBool(FALSE)
               /\ (calls'[Len(calls')].ret.t # "raise") =>
                    /\ llm'.client # PyNone
                    /\ session'.llm_initialized = PyBool(TRUE)]_vars

\* an initialize succeeded, the next one failed at its verification
C16_FailedAfterSuccess ==
    /\ entry = "llm"
    /\ Len(calls) = 2
    /\ calls[1].kind = "initialize"
    /\ calls[1].ret = PyNone
    /\ calls[2].kind = "initialize"
    /\ calls[2].http.request # NoRequest
    /\ calls[2].ret.t = "raise"
    /\ llm.client = PyNone
    /\ session.llm_initialized = PyBool(FALSE)

\* what the page shows when it does not start planning
ClaimRefusals == {<<<<"P","l","e","a","s","e"," ","e","n","t","e","r"," ","a"," ","g","o","a","l">>>>, <<<<"P","l","e","a","s","e"," ","i","n","i","t","i","a","l","i","z","e"," ","L","L","M"," ","p","r","o","v","i","d","e","r"," ","f","i","r","s","t">>>>}

\* C17: a press of Generate Plan starts planning only when the goal is not
\* empty and the manager holds a usable client from a successful Initialize
\* LLM; otherwise the page shows 'Please enter a goal' or 'Please initialize
\* LLM provider first', the planner is not called, nothing is saved and
\* current_plan stays as it was, whatever presses of Initialize LLM came
\* before, failed ones included.
C17_PlanningNeedsClient ==
    [][(/\ entry = "ui"
        /\ Len(calls') = Len(calls) + 1
        /\ calls'[Len(calls')].kind = "Generate Plan"
        /\ (calls'[Len(calls')].arg = PyStr(<<>>) \/ llm.client = PyNone))
            => /\ calls'[Len(calls')].num = PyBool(FALSE)
               /\ calls'[Len(calls')].warned \in ClaimRefusals
               /\ db' = db
               /\ session'.current_plan = session.current_plan]_vars

\* Initialize LLM failed, and the next press of Generate Plan called the
\* planner of a manager without a client
C17_PlannedWithoutClient ==
    /\ entry = "ui"
    /\ Len(calls) = 2
    /\ calls[1].kind = "Initialize LLM"
    /\ calls[1].ret.t = "raise"
    /\ llm.client = PyNone
    /\ calls[2].kind = "Generate Plan"
    /\ calls[2].num = PyBool(TRUE)
    /\ calls[2].warned[Len(calls[2].warned)] = <<"E","r","r","o","r"," ","c","r","e","a","t","i","n","g"," ","p","l","a","n">>
    /\ db.rows = <<>>

\* the save_plan call that returned the id, 0 if none did
ClaimSaveOf(id) ==
    IF \E k \in 1..Len(calls) : calls[k].ret = id
    THEN CHOOSE k \in 1..Len(calls) : calls[k].ret = id
    ELSE 0

\* the record is the one of the plan saved under its id
ClaimRecordOfSaved(record) ==
    /\ record.t = "dict"
    /\ ClaimSaveOf(ClaimGet(record, <<"i","d">>)) # 0
    /\ ClaimGet(record, <<"p","l","a","n">>) = PlanDict(calls[ClaimSaveOf(ClaimGet(record, <<"i","d">>))].arg)
    /\ ClaimGet(record, <<"g","o","a","l">>) = calls[ClaimSaveOf(ClaimGet(record, <<"i","d">>))].arg.goal
    /\ ClaimGet(record, <<"c","r","e","a","t","e","d","_","a","t">>)
           = calls[ClaimSaveOf(ClaimGet(record, <<"i","d">>))].arg.created_at

\* C18: after any sequence of save_plan calls, get_all_plans returns one
\* record for each saved plan, none lost and none twice, ordered by
\* created_at descending so that the plan created last comes first, and the
\* 'plan' of each record is the plan that was saved under that id.
C18_AllPlansNewestFirst ==
    (entry = "db" /\ pc = "get_all_plans") =>
        /\ shown.t = "list"
        /\ Len(shown.v) = Len(calls)
        /\ \A k \in 1..Len(shown.v) : ClaimRecordOfSaved(shown.v[k])
        /\ \A j, k \in 1..Len(shown.v) :
                (j # k) => (ClaimGet(shown.v[j], <<"i","d">>) # ClaimGet(shown.v[k], <<"i","d">>))
        /\ \A k \in 1..(Len(shown.v) - 1) :
                TextLessEq(ClaimGet(shown.v[k + 1], <<"c","r","e","a","t","e","d","_","a","t">>).v,
                           ClaimGet(shown.v[k], <<"c","r","e","a","t","e","d","_","a","t">>).v)

\* two plans were saved, the older first, and the history starts with the
\* newer one
C18_NewerFirst ==
    /\ entry = "db"
    /\ pc = "get_all_plans"
    /\ Len(calls) = 2
    /\ calls[1].arg.created_at # calls[2].arg.created_at
    /\ TextLessEq(calls[1].arg.created_at.v, calls[2].arg.created_at.v)
    /\ shown.t = "list"
    /\ ClaimGet(shown.v[1], <<"i","d">>) = PyInt(2)

\* C19: every save_plan returns an id distinct from and greater than every
\* id returned before; get_plan_by_id(id) returns the plan saved under that
\* id, and None for an id that no save_plan has returned; get_plan_by_id and
\* get_all_plans leave the stored plans unchanged.
C19_IdsIdentifyPlans ==
    [][(entry = "db") =>
        /\ (pc' = "save_plan") =>
                /\ calls'[Len(calls')].ret = PyInt(plan_id')
                /\ \A k \in 1..Len(calls) : calls[k].ret.v < plan_id'
        /\ (pc' = "get_plan_by_id") =>
                IF \E k \in 1..Len(calls) : calls[k].ret = PyInt(plan_id')
                THEN /\ shown'.t = "dict"
                     /\ ClaimGet(shown', <<"i","d">>) = PyInt(plan_id')
                     /\ ClaimGet(shown', <<"p","l","a","n">>)
                            = PlanDict(calls[ClaimSaveOf(PyInt(plan_id'))].arg)
                ELSE shown' = PyNone
        /\ (pc' \in {"get_plan_by_id", "get_all_plans"}) =>
                /\ db' = db
                /\ calls' = calls]_vars

\* the second of two saved plans was read back by its id
C19_SecondReadBack ==
    /\ entry = "db"
    /\ pc = "get_plan_by_id"
    /\ Len(calls) = 2
    /\ plan_id = 2
    /\ calls[1].arg # calls[2].arg
    /\ ClaimGet(shown, <<"p","l","a","n">>) = PlanDict(calls[2].arg)

\* the plan has a day, total_days counts its days, and they are numbered
\* 1, 2, ... in order
ClaimDaysNumbered(p) ==
    /\ Len(p.days) >= 1
    /\ p.total_days = PyInt(Len(p.days))
    /\ \A k \in 1..Len(p.days) : p.days[k].day_number = PyInt(k)

\* the marker lines that a step line follows before the next marker or the
\* end, in order
ClaimSectionMarkers(ls) ==
    LET at == {i \in 1..Len(ls) :
                  /\ ClaimMarker(StrStrip(ls[i]))
                  /\ \E j \in (i + 1)..Len(ls) :
                        /\ IsStepLine(StrStrip(ls[j]))
                        /\ \A k \in (i + 1)..j : ~ClaimMarker(StrStrip(ls[k]))}
    IN  [k \in 1..Cardinality(at) |-> PyStr(StrStrip(ls[SortedSeq(at)[k]]))]

\* the days are those of the markers, or the one fallback day if there are none
ClaimDaysOfMarkers(p, markers) ==
    [k \in 1..Len(p.days) |-> p.days[k].theme]
        = IF markers = <<>> THEN <<PyStr(<<"D","a","y"," ","1",":"," ","M","a","i","n"," ","P","l","a","n">>)>> ELSE markers

\* C20: every TaskPlan that _parse_plan_response returns has at least one
\* day, total_days equal to the number of its days, and the days numbered
\* 1..total_days in order, whatever the response; a marker line with no step
\* line after it before the next marker or the end produces no day and
\* takes no day number.
C20_DaysOfSections ==
    (entry = "parse" /\ pc = "returned") =>
        /\ ClaimDaysNumbered(plan)
        /\ ClaimDaysOfMarkers(plan, ClaimSectionMarkers(lines))

\* "Day 1" has no step line after it and yet became day 1, with the step
\* that stood before it
C20_EmptySectionMadeDay ==
    /\ entry = "parse"
    /\ pc = "returned"
    /\ lines = <<<<"1","."," ","F","o","r","t">>, <<"D","a","y"," ","1">>, <<"1","."," ","M","o","n","d","a","y">>>>
    /\ Len(plan.days) = 1
    /\ plan.days[1].theme = PyStr(<<"D","a","y"," ","1">>)
    /\ plan.days[1].steps[1].description = PyStr(<<"F","o","r","t">>)

\* the line is a step line: not blank, no day marker, and taken as a step
ClaimStepLine(line) ==
    /\ StrStrip(line) # <<>>
    /\ ~ClaimMarker(StrStrip(line))
    /\ IsStepLine(StrStrip(line))

\* the positions of the day-marker lines
ClaimMarkersAt(ls) == {i \in 1..Len(ls) : ClaimMarker(StrStrip(ls[i]))}

\* the position of the nearest day-marker line above line j
ClaimMarkerAbove(ls, j) ==
    CHOOSE i \in ClaimMarkersAt(ls) : i < j /\ \A k \in ClaimMarkersAt(ls) : k < j => k <= i

\* the step lines after the first day-marker line, in order, each with the
\* marker line nearest above it and with what is left of it as a description
ClaimStepsUnderMarkers(ls) ==
    LET at == {j \in 1..Len(ls) :
                  /\ ClaimStepLine(ls[j])
                  /\ \E i \in ClaimMarkersAt(ls) : i < j}
    IN  [k \in 1..Cardinality(at) |->
            <<PyStr(StrStrip(ls[ClaimMarkerAbove(ls, SortedSeq(at)[k])])),
              PyStr(StrLStrip(StrStrip(ls[SortedSeq(at)[k]]),
                              DigitSet \cup {".", "-", "U+2022", " "}))>>]

\* the step lines before the first day-marker line
ClaimStepsBeforeMarkers(ls) ==
    {j \in 1..Len(ls) : ClaimStepLine(ls[j]) /\ \A i \in ClaimMarkersAt(ls) : i > j}

\* the steps of the days, in order, each with the theme of its day
ClaimStepsOfDays(days) ==
    Flatten([d \in 1..Len(days) |->
                [k \in 1..Len(days[d].steps) |->
                    <<days[d].theme, days[d].steps[k].description>>]],
            1, Len(days))

\* C21: every DayPlan of a TaskPlan that _parse_plan_response returns has a
\* non-empty list of steps, and every step line of the response that comes
\* after the first day-marker line appears in exactly one day, the day whose
\* marker is the nearest day-marker line above it.
C21_StepsUnderNearestMarker ==
    (entry = "parse" /\ pc = "returned") =>
        /\ \A d \in 1..Len(plan.days) : Len(plan.days[d].steps) > 0
        /\ (ClaimStepsUnderMarkers(lines) # <<>>) =>
                SubSeq(ClaimStepsOfDays(plan.days),
                       Cardinality(ClaimStepsBeforeMarkers(lines)) + 1,
                       Len(ClaimStepsOfDays(plan.days)))
                    = ClaimStepsUnderMarkers(lines)

\* two days were made, each with the step that stands under its marker
C21_TwoDays ==
    /\ entry = "parse"
    /\ pc = "returned"
    /\ Len(plan.days) = 2
    /\ plan.days[1].theme # plan.days[2].theme
    /\ Len(plan.days[1].steps) = 1
    /\ Len(plan.days[2].steps) = 1

\* the k-th step of the day has step_number k and the title "Step k"
ClaimNumberedFromOne(steps) ==
    \A k \in 1..Len(steps) :
        /\ steps[k].step_number = PyInt(k)
        /\ steps[k].title = PyStr(<<"S","t","e","p"," ">> \o IntToStr(k))

\* C22: in every DayPlan that _parse_plan_response returns the steps are
\* numbered consecutively from 1, the k-th step of the day having step_number
\* k and the title "Step k", also when step lines stand before the first
\* day-marker line; the single day of the fallback, whose step is titled
\* "Complete Plan", is left aside.
C22_StepsNumberedFromOne ==
    (entry = "parse" /\ pc = "returned" /\ plan.days # FallbackDays(response.v)) =>
        \A d \in 1..Len(plan.days) : ClaimNumberedFromOne(plan.days[d].steps)

\* a step line before the first marker and one after it: both steps of the
\* day carry the number 1
C22_TwoStepsNumberedOne ==
    /\ entry = "parse"
    /\ pc = "returned"
    /\ lines = <<<<"1","."," ","F","o","r","t">>, <<"D","a","y"," ","1">>, <<"U+2022"," ","Z","o","o">>>>
    /\ Len(plan.days) = 1
    /\ Len(plan.days[1].steps) = 2
    /\ plan.days[1].steps[1].step_number = PyInt(1)
    /\ plan.days[1].steps[2].step_number = PyInt(1)
    /\ plan.days[1].steps[2].title = PyStr(<<"S","t","e","p"," ","1">>)
    /\ plan.days[1].steps[2].description = PyStr(<<"Z","o","o">>)

=============================================================================
